---- MODULE Spec2Model ----
(***************************************************************************)
(* Model of the Fast-API-Base REST gateway: the file router                *)
(* (app/routes/router.py), the AI router (app/routes/ai_routes.py) and the *)
(* Gemini gateway (app/routes/gemini_api.py).                              *)
(*                                                                         *)
(* A request is submitted by a client, the route handler runs as one step  *)
(* (the whole handler, including the conversion of what it raises), and    *)
(* the response is delivered.  Python exceptions are modelled as outcome   *)
(* records: an "except C" clause handles an outcome whose class is C or a  *)
(* subclass of C, exactly as the interpreter decides it.                   *)
(***************************************************************************)
EXTENDS Integers, Sequences, FiniteSets, TLC

VARIABLES
    pc,            \* "idle" | "pending" | "done": the position of the one request in flight
    request,       \* the request being served (route and inputs)
    response,      \* what the client receives: status, body
    file_reads,    \* number of UploadFile.read() calls the handler made for this request
    remote_calls,  \* number of remote (Gemini) calls the handler made for this request
    gemini_client, \* ai_routes.gemini_client: "none" (no credential) or "client"
    chat_history,  \* GeminiAPI.chat_history
    temperature,   \* _generation_config.temperature of model_pro / model_flash, in tenths
    chat_session,  \* the remote chat session last started: <<>> or <<its start history>>
    MAX_FILE_SIZE, \* router.MAX_FILE_SIZE: the dict of size limits by category
    ALLOWED_EXTENSIONS  \* router.ALLOWED_EXTENSIONS: the dict of extension lists by category

vars == <<pc, request, response, file_reads, remote_calls, gemini_client, chat_history,
          temperature, chat_session, MAX_FILE_SIZE, ALLOWED_EXTENSIONS>>

registry_vars == <<MAX_FILE_SIZE, ALLOWED_EXTENSIONS>>

gateway_vars == <<gemini_client, chat_history, temperature, chat_session>>

-----------------------------------------------------------------------------
(* Configuration and constants of router.py *)

MB == 1048576

MAX_FILE_SIZE_INIT ==
    [image |-> 10 * MB, video |-> 100 * MB, zip |-> 50 * MB, pdf |-> 20 * MB,
     excel |-> 15 * MB, csv |-> 10 * MB, word |-> 15 * MB, audio |-> 30 * MB,
     json |-> 5 * MB, xml |-> 5 * MB]

DEFAULT_MAX_SIZE == 5 * MB

ALLOWED_EXTENSIONS_INIT ==
    [image |-> << <<".", "j", "p", "g">>, <<".", "j", "p", "e", "g">>,
                  <<".", "p", "n", "g">>, <<".", "g", "i", "f">> >>,
     video |-> << <<".", "m", "p", "4">>, <<".", "a", "v", "i">>,
                  <<".", "m", "o", "v">>, <<".", "m", "k", "v">> >>,
     zip   |-> << <<".", "z", "i", "p">> >>,
     pdf   |-> << <<".", "p", "d", "f">> >>,
     excel |-> << <<".", "x", "l", "s", "x">>, <<".", "x", "l", "s">> >>,
     csv   |-> << <<".", "c", "s", "v">> >>,
     word  |-> << <<".", "d", "o", "c", "x">>, <<".", "d", "o", "c">> >>,
     audio |-> << <<".", "m", "p", "3">>, <<".", "w", "a", "v">>, <<".", "o", "g", "g">> >>,
     json  |-> << <<".", "j", "s", "o", "n">> >>,
     xml   |-> << <<".", "x", "m", "l">> >>]

\* The keys of ALLOWED_EXTENSIONS in the order the dict literal inserts them.
FILE_TYPES == <<"image", "video", "zip", "pdf", "excel", "csv", "word", "audio", "json", "xml">>

MAX_BATCH_FILES == 10

Range(s) == {s[i] : i \in DOMAIN s}

-----------------------------------------------------------------------------
(* Strings are sequences of one-character strings. *)

ToLower(c) ==
    CASE c = "A" -> "a" [] c = "C" -> "c" [] c = "D" -> "d" [] c = "E" -> "e"
      [] c = "F" -> "f" [] c = "G" -> "g" [] c = "I" -> "i" [] c = "J" -> "j"
      [] c = "L" -> "l" [] c = "M" -> "m" [] c = "N" -> "n" [] c = "O" -> "o"
      [] c = "P" -> "p" [] c = "S" -> "s" [] c = "V" -> "v" [] c = "X" -> "x"
      [] c = "Z" -> "z" [] OTHER -> c

\* str.lower()
lower(s) == [i \in DOMAIN s |-> ToLower(s[i])]

\* str.rfind(c): the last index of c (1-based), 0 when c does not occur
rfind(s, c) ==
    LET hits == {i \in DOMAIN s : s[i] = c}
    IN IF hits = {} THEN 0 ELSE CHOOSE i \in hits : \A j \in hits : j <= i

\* os.path.splitext(p)[1] (posixpath: genericpath._splitext with sep "/"):
\* the suffix from the last dot of the last path component, unless that
\* component has only dots before it.
splitext_ext(p) ==
    LET sepIndex == rfind(p, "/")
        dotIndex == rfind(p, ".")
    IN IF dotIndex > sepIndex
          /\ \E k \in (sepIndex + 1)..(dotIndex - 1) : p[k] # "."
       THEN SubSeq(p, dotIndex, Len(p))
       ELSE <<>>

-----------------------------------------------------------------------------
(* Auxiliary functions of router.py *)

\* dict.get(file_type, default)
MaxSizeGet(file_type) ==
    IF file_type \in DOMAIN MAX_FILE_SIZE THEN MAX_FILE_SIZE[file_type] ELSE DEFAULT_MAX_SIZE

AllowedGet(file_type) ==
    IF file_type \in DOMAIN ALLOWED_EXTENSIONS THEN ALLOWED_EXTENSIONS[file_type] ELSE <<>>

\* A size check that accepts everything
validate_file_size_none(file_content, file_type) == TRUE

\* A size check that rejects a payload of exactly the limit
validate_file_size_strict(file_content, file_type) ==
    file_content.size < MaxSizeGet(file_type)

validate_file_size(file_content, file_type) ==
    file_content.size <= MaxSizeGet(file_type)

\* An extension check that compares the suffix as it is written
validate_file_extension_exact(filename, file_type) ==
    splitext_ext(filename) \in Range(AllowedGet(file_type))

validate_file_extension(filename, file_type) ==
    LET ext == lower(splitext_ext(filename))
    IN ext \in Range(AllowedGet(file_type))

-----------------------------------------------------------------------------
(* Inputs: filenames and payloads a client can upload *)

Name(stem, ext) == stem \o ext

AllowedExtensionSet == UNION {Range(ALLOWED_EXTENSIONS[t]) : t \in DOMAIN ALLOWED_EXTENSIONS}

FileNames ==
    {Name(<<"a">>, e) : e \in AllowedExtensionSet}
    \cup { <<"a", ".", "P", "D", "F">>,            \* upper-case suffix
           <<"a", ".", "Z", "i", "p">>,            \* mixed-case suffix
           <<"a", ".", "J", "S", "O", "N">>,
           <<"a", ".", "t", "x", "t">>,            \* a suffix of no category
           <<"a", ".", "e", "x", "e">>,
           <<"a">>,                               \* no suffix
           <<".", "p", "d", "f">>,                \* only a leading dot
           <<"a", ".">>,                          \* empty suffix after a dot
           <<"a", ".", "p", "d", "f", "/", "b">> } \* dot in a directory part only

\* The largest payload considered is PayloadSlack bytes above a size limit.
PayloadSlack == 1

SizeLimits == {MAX_FILE_SIZE[t] : t \in DOMAIN MAX_FILE_SIZE}

PayloadSizes == {4} \cup {l + d : l \in SizeLimits, d \in 0..PayloadSlack}

\* The documents the uploads hold.
\* CSV: a header line and data lines; a document of n lines has n - 1 data rows.
MaxCsvLines == 8

CsvHeader == <<"a", "b">>

CsvDataRow(k) == <<ToString(k), "v">>

\* JSON objects by their keys in document order, arrays by their length,
\* other top-level values by the name of their Python type
JsonObjects == << <<"a", "b">>, <<>>, <<"k">> >>

JsonArrays == <<3, 0, 1>>

JsonScalars == <<"bool", "int", "str", "NoneType", "float">>

Element(tag, attrib, children) == [tag |-> tag, attrib |-> attrib, children |-> children]

NoAttrib == [k \in {} |-> ""]

\* XML: a root with nested and flat children, a lone root, a chain, and a
\* root without attributes whose children have some
XmlTrees ==
    << Element("r", [k |-> "v"],
          << Element("a", NoAttrib, << Element("c", NoAttrib, <<>>) >>),
             Element("b", NoAttrib, <<>>) >>),
       Element("r", NoAttrib, <<>>),
       Element("r", [x |-> "1", y |-> "2"],
          << Element("a", NoAttrib,
                << Element("b", NoAttrib,
                      << Element("c", NoAttrib, << Element("d", NoAttrib, <<>>) >>) >>) >>) >>),
       Element("r", NoAttrib,
          << Element("a", [id |-> "1"], <<>>), Element("b", [id |-> "2"], <<>>),
             Element("c", NoAttrib, << Element("a", NoAttrib, <<>>) >>) >>) >>

ZipInfo(filename, file_size, compress_size) ==
    [filename |-> filename, file_size |-> file_size, compress_size |-> compress_size]

\* ZIP: entries that shrink, that are empty, that grow; an empty archive; and
\* entries whose ratio is exact, is a rounding tie, or has no compression
ZipArchives ==
    << << ZipInfo("x.txt", 300, 100), ZipInfo("empty", 0, 0), ZipInfo("y.bin", 7, 9) >>,
       <<>>,
       << ZipInfo("a", 8, 1), ZipInfo("b", 32, 31), ZipInfo("c", 5, 5), ZipInfo("d", 0, 2),
          ZipInfo("e", 3, 1) >> >>

DocumentVariants ==
    [csv |-> 1..MaxCsvLines, json_object |-> DOMAIN JsonObjects,
     json_array |-> DOMAIN JsonArrays, json_scalar |-> DOMAIN JsonScalars,
     xml |-> DOMAIN XmlTrees, zip |-> DOMAIN ZipArchives]

\* What the bytes are.  head: the first bytes; utf8: whether bytes.decode('utf-8')
\* succeeds; fmt: the kind of document the bytes hold, as the format libraries
\* see it; variant: which document of that kind (an index into the documents
\* listed with each library).
Shapes ==
    { [head |-> <<"%", "P", "D", "F">>, utf8 |-> FALSE, fmt |-> "pdf", variant |-> 1, content_type |-> <<"application", "pdf">>],
      [head |-> <<"P", "K", "03", "04">>, utf8 |-> FALSE, fmt |-> "zip", variant |-> 1, content_type |-> <<"application", "zip">>],
      [head |-> <<"89", "P", "N", "G">>, utf8 |-> FALSE, fmt |-> "image", variant |-> 1, content_type |-> <<"image", "png">>],
      [head |-> <<"{", "q", "a", "q">>, utf8 |-> TRUE,  fmt |-> "json_object", variant |-> 1, content_type |-> <<"application", "json">>],
      [head |-> <<"[", "1", ",", "2">>, utf8 |-> TRUE,  fmt |-> "json_array", variant |-> 1, content_type |-> <<"application", "json">>],
      [head |-> <<"t", "r", "u", "e">>, utf8 |-> TRUE,  fmt |-> "json_scalar", variant |-> 1, content_type |-> <<"application", "json">>],
      [head |-> <<"<", "r", " ", "k">>, utf8 |-> TRUE,  fmt |-> "xml", variant |-> 1, content_type |-> <<"text", "xml">>],
      [head |-> <<"a", ",", "b", "LF">>, utf8 |-> TRUE, fmt |-> "csv", variant |-> 1, content_type |-> <<"text", "csv">>],
      [head |-> <<"FF", "FE", "00", "01">>, utf8 |-> FALSE, fmt |-> "garbage", variant |-> 1, content_type |-> <<"application", "octet-stream">>] }

Payload(shape, size) ==
    [size |-> size, head |-> shape.head, utf8 |-> shape.utf8, fmt |-> shape.fmt,
     variant |-> shape.variant, content_type |-> shape.content_type]

\* Every listed document, as a payload of a few bytes
Documents ==
    UNION { {[Payload(sh, 4) EXCEPT !.variant = v] : v \in DocumentVariants[sh.fmt]} :
              sh \in {x \in Shapes : x.fmt \in DOMAIN DocumentVariants} }

Payloads ==
    {Payload(sh, n) : sh \in Shapes, n \in PayloadSizes}
    \cup Documents
    \cup { [size |-> 0, head |-> <<>>, utf8 |-> TRUE, fmt |-> "empty", variant |-> 1,
            content_type |-> <<"application", "octet-stream">>],
           [size |-> 3, head |-> <<"%", "P", "D">>, utf8 |-> TRUE, fmt |-> "text", variant |-> 1,
            content_type |-> <<"application", "pdf">>] }

\* An UploadFile: readable is FALSE when UploadFile.read() raises (I/O error)
UploadFile(filename, contents, readable) ==
    [filename |-> filename, contents |-> contents, readable |-> readable,
     content_type |-> contents.content_type]

UnreadablePayload == Payload(CHOOSE sh \in Shapes : sh.fmt = "pdf", 4)

UploadFiles ==
    {UploadFile(f, c, TRUE) : f \in FileNames, c \in Payloads}
    \cup {UploadFile(f, UnreadablePayload, FALSE) : f \in FileNames}

-----------------------------------------------------------------------------
(* Python exceptions and handler outcomes *)

\* The base class of each exception class the handlers meet.
BaseClass(cls) ==
    CASE cls = "HTTPException" -> "Exception"
      [] cls = "BadZipFile" -> "Exception"
      [] cls = "UnicodeDecodeError" -> "ValueError"
      [] cls = "JSONDecodeError" -> "ValueError"
      [] cls = "ValueError" -> "Exception"
      [] cls = "ParseError" -> "SyntaxError"
      [] cls = "SyntaxError" -> "Exception"
      [] cls = "UnidentifiedImageError" -> "OSError"
      [] cls = "OSError" -> "Exception"
      [] cls = "KeyError" -> "Exception"
      [] cls = "AttributeError" -> "Exception"
      [] cls = "RemoteError" -> "Exception"
      [] OTHER -> "object"

RECURSIVE IsInstance(_, _)
\* isinstance(e, cls) for an exception e of class exc
IsInstance(exc, cls) ==
    IF exc = cls THEN TRUE
    ELSE IF exc \in {"none", "object"} THEN FALSE
    ELSE IsInstance(BaseClass(exc), cls)

NoData == [none |-> TRUE]

NoBody == [none |-> TRUE]

\* generate_response(success, message, data): "data" is added only when truthy;
\* the timestamp is left out
generate_response(success, message, data) ==
    IF data # NoData
    THEN [success |-> success, message |-> message, data |-> data]
    ELSE [success |-> success, message |-> message]

\* return JSONResponse(content=content)
ReturnJSON(content, reads, remote) ==
    [exc |-> "none", status |-> 200, detail |-> <<>>, body |-> content,
     reads |-> reads, remote |-> remote]

\* return generate_response(success=True, message, data)
Return(message, data, reads) == ReturnJSON(generate_response(TRUE, message, data), reads, 0)

\* raise HTTPException(status_code, detail)
RaiseHTTP(status_code, detail, reads) ==
    [exc |-> "HTTPException", status |-> status_code, detail |-> detail, body |-> NoBody,
     reads |-> reads, remote |-> 0]

\* raise of any other exception class, with its message
Raise(cls, message, reads) ==
    [exc |-> cls, status |-> 0, detail |-> <<message>>, body |-> NoBody,
     reads |-> reads, remote |-> 0]

\* What FastAPI sends for a handler's outcome: the returned JSON with status 200,
\* an escaped HTTPException as its status code with {"detail": ...}, and any
\* other escaped exception as 500 Internal Server Error.
Respond(out) ==
    IF out.exc = "none" THEN [status |-> 200, body |-> out.body]
    ELSE IF IsInstance(out.exc, "HTTPException")
    THEN [status |-> out.status, body |-> [detail |-> out.detail]]
    ELSE [status |-> 500, body |-> [detail |-> <<"Internal Server Error">>]]

\* str(e): starlette's HTTPException prints "<status_code>: <detail>"
Str(e) ==
    IF e.exc = "HTTPException" THEN <<ToString(e.status), ": ">> \o e.detail ELSE e.detail

\* num/den rounded to the nearest integer, ties to even (Python's round), num >= 0
RoundDiv(num, den) ==
    LET q == num \div den
        r == num % den
    IN IF 2 * r > den \/ (2 * r = den /\ q % 2 = 1) THEN q + 1 ELSE q

\* round(num / den, 2), in hundredths
Round2(num, den) == RoundDiv(num * 100, den)

\* round(len(contents) / (1024 * 1024), 2), in hundredths of a MB
size_mb(contents) == (contents.size \div MB) * 100 + Round2(contents.size % MB, MB)

-----------------------------------------------------------------------------
(* The format libraries, as functions of the document the bytes hold *)

\* PIL.Image.open(BytesIO(contents))
Image_open(contents) ==
    IF contents.fmt = "image"
    THEN [exc |-> "none", format |-> "PNG", mode |-> "RGB", width |-> 640, height |-> 480]
    ELSE [exc |-> "UnidentifiedImageError", format |-> "", mode |-> "", width |-> 0, height |-> 0]

\* zipfile.ZipFile(BytesIO(contents)).filelist
ZipFile(contents) ==
    IF contents.fmt = "zip"
    THEN [exc |-> "none", filelist |-> ZipArchives[contents.variant]]
    ELSE [exc |-> "BadZipFile", filelist |-> <<>>]

\* list(csv.reader(text.splitlines())) of a decodable text
csv_rows(contents) ==
    CASE contents.fmt = "csv" ->
            [i \in 1..contents.variant |-> IF i = 1 THEN CsvHeader ELSE CsvDataRow(i - 1)]
      [] contents.fmt = "empty" -> <<>>
      [] OTHER -> << <<contents.fmt>> >>

\* json.loads(text)
json_loads(contents) ==
    CASE contents.fmt = "json_object" ->
            [exc |-> "none", type |-> "dict", keys |-> JsonObjects[contents.variant],
             length |-> Len(JsonObjects[contents.variant])]
      [] contents.fmt = "json_array" ->
            [exc |-> "none", type |-> "list", keys |-> <<>>,
             length |-> JsonArrays[contents.variant]]
      [] contents.fmt = "json_scalar" ->
            [exc |-> "none", type |-> JsonScalars[contents.variant], keys |-> <<>>,
             length |-> 0]
      [] OTHER -> [exc |-> "JSONDecodeError", type |-> "", keys |-> <<>>, length |-> 0]

\* xml.etree.ElementTree.fromstring(text)
ET_fromstring(contents) ==
    IF contents.fmt = "xml"
    THEN [exc |-> "none", root |-> XmlTrees[contents.variant]]
    ELSE [exc |-> "ParseError", root |-> Element("", NoAttrib, <<>>)]

RECURSIVE SumSeq(_)
SumSeq(s) == IF s = <<>> THEN 0 ELSE Head(s) + SumSeq(Tail(s))

\* A count of the element and its children only
count_elements_shallow(element) == 1 + Len(element.children)

RECURSIVE count_elements(_)
\* upload_xml.count_elements: 1 plus the counts of the children
count_elements(element) ==
    1 + SumSeq([i \in DOMAIN element.children |-> count_elements(element.children[i])])

\* bytes.startswith(prefix)
startswith(contents, prefix) ==
    Len(contents.head) >= Len(prefix) /\ SubSeq(contents.head, 1, Len(prefix)) = prefix

PDF_SIGNATURE == <<"%", "P", "D", "F">>

-----------------------------------------------------------------------------
(* The single-upload handlers of router.py: upload_X_try is the body of   *)
(* the try statement, upload_X applies its except clauses.                *)

upload_image_try(file) ==
    IF ~validate_file_extension(file.filename, "image")
    THEN RaiseHTTP(400, <<"Formato no permitido">>, 0)
    ELSE IF ~file.readable THEN Raise("OSError", "read failed", 1)
    ELSE IF ~validate_file_size(file.contents, "image")
    THEN RaiseHTTP(413, <<"Archivo demasiado grande">>, 1)
    ELSE LET image == Image_open(file.contents)
         IN IF image.exc # "none" THEN Raise(image.exc, "cannot identify image file", 1)
            ELSE Return("Imagen procesada exitosamente",
                        [filename |-> file.filename, format |-> image.format,
                         mode |-> image.mode, width |-> image.width, height |-> image.height,
                         size_bytes |-> file.contents.size, size_mb |-> size_mb(file.contents)], 1)

upload_image(file) ==
    LET r == upload_image_try(file)
    IN IF IsInstance(r.exc, "Exception")
       THEN RaiseHTTP(500, <<"Error al procesar imagen: ">> \o Str(r), r.reads)
       ELSE r

upload_video_try(file) ==
    IF ~validate_file_extension(file.filename, "video")
    THEN RaiseHTTP(400, <<"Formato no permitido">>, 0)
    ELSE IF ~file.readable THEN Raise("OSError", "read failed", 1)
    ELSE IF ~validate_file_size(file.contents, "video")
    THEN RaiseHTTP(413, <<"Archivo demasiado grande">>, 1)
    ELSE Return("Video cargado exitosamente",
                [filename |-> file.filename, content_type |-> file.content_type,
                 size_bytes |-> file.contents.size, size_mb |-> size_mb(file.contents)], 1)

upload_video(file) ==
    LET r == upload_video_try(file)
    IN IF IsInstance(r.exc, "Exception")
       THEN RaiseHTTP(500, <<"Error al procesar video: ">> \o Str(r), r.reads)
       ELSE r

\* The ratio as a fraction of one, in the unit of compression_ratio
compression_ratio_fraction(info) ==
    IF info.file_size > 0 /\ info.compress_size <= info.file_size
    THEN RoundDiv((info.file_size - info.compress_size) * 100, info.file_size)
    ELSE 0

\* round((1 - compress_size / file_size) * 100, 2) if file_size > 0 else 0,
\* in hundredths of a percent
compression_ratio(info) ==
    IF info.file_size > 0
    THEN IF info.compress_size <= info.file_size
         THEN RoundDiv((info.file_size - info.compress_size) * 10000, info.file_size)
         ELSE 0 - RoundDiv((info.compress_size - info.file_size) * 10000, info.file_size)
    ELSE 0

upload_zip_try(file) ==
    IF ~validate_file_extension(file.filename, "zip")
    THEN RaiseHTTP(400, <<"Solo se permiten archivos .zip">>, 0)
    ELSE IF ~file.readable THEN Raise("OSError", "read failed", 1)
    ELSE IF ~validate_file_size(file.contents, "zip")
    THEN RaiseHTTP(413, <<"Archivo demasiado grande">>, 1)
    ELSE LET zip_file == ZipFile(file.contents)
             file_list == [i \in DOMAIN zip_file.filelist |->
                             [filename |-> zip_file.filelist[i].filename,
                              size_bytes |-> zip_file.filelist[i].file_size,
                              compressed_size |-> zip_file.filelist[i].compress_size,
                              compression_ratio |-> compression_ratio(zip_file.filelist[i])]]
         IN IF zip_file.exc # "none" THEN Raise(zip_file.exc, "File is not a zip file", 1)
            ELSE Return("Archivo ZIP procesado exitosamente",
                        [filename |-> file.filename, total_files |-> Len(file_list),
                         size_mb |-> size_mb(file.contents), files |-> file_list], 1)

\* upload_zip without its "except zipfile.BadZipFile" clause
upload_zip_no_badzip_clause(file) ==
    LET r == upload_zip_try(file)
    IN IF IsInstance(r.exc, "Exception")
       THEN RaiseHTTP(500, <<"Error al procesar ZIP: ">> \o Str(r), r.reads)
       ELSE r

upload_zip(file) ==
    LET r == upload_zip_try(file)
    IN IF IsInstance(r.exc, "BadZipFile")
       THEN RaiseHTTP(400, <<"Archivo ZIP corrupto o invalido">>, r.reads)
       ELSE IF IsInstance(r.exc, "Exception")
       THEN RaiseHTTP(500, <<"Error al procesar ZIP: ">> \o Str(r), r.reads)
       ELSE r

\* A body that also wants bytes after the signature
upload_pdf_try_deep(file) ==
    IF ~validate_file_extension(file.filename, "pdf")
    THEN RaiseHTTP(400, <<"Solo se permiten archivos .pdf">>, 0)
    ELSE IF ~file.readable THEN Raise("OSError", "read failed", 1)
    ELSE IF ~validate_file_size(file.contents, "pdf")
    THEN RaiseHTTP(413, <<"Archivo demasiado grande">>, 1)
    ELSE IF ~(startswith(file.contents, PDF_SIGNATURE) /\ file.contents.size > Len(PDF_SIGNATURE))
    THEN RaiseHTTP(400, <<"El archivo no es un PDF valido">>, 1)
    ELSE Return("PDF cargado exitosamente",
                [filename |-> file.filename, size_bytes |-> file.contents.size,
                 size_mb |-> size_mb(file.contents), is_valid |-> TRUE], 1)

upload_pdf_try(file) ==
    IF ~validate_file_extension(file.filename, "pdf")
    THEN RaiseHTTP(400, <<"Solo se permiten archivos .pdf">>, 0)
    ELSE IF ~file.readable THEN Raise("OSError", "read failed", 1)
    ELSE IF ~validate_file_size(file.contents, "pdf")
    THEN RaiseHTTP(413, <<"Archivo demasiado grande">>, 1)
    ELSE IF ~startswith(file.contents, PDF_SIGNATURE)
    THEN RaiseHTTP(400, <<"El archivo no es un PDF valido">>, 1)
    ELSE Return("PDF cargado exitosamente",
                [filename |-> file.filename, size_bytes |-> file.contents.size,
                 size_mb |-> size_mb(file.contents), is_valid |-> TRUE], 1)

upload_pdf(file) ==
    LET r == upload_pdf_try(file)
    IN IF IsInstance(r.exc, "Exception")
       THEN RaiseHTTP(500, <<"Error al procesar PDF: ">> \o Str(r), r.reads)
       ELSE r

upload_excel_try(file) ==
    IF ~validate_file_extension(file.filename, "excel")
    THEN RaiseHTTP(400, <<"Formato no permitido">>, 0)
    ELSE IF ~file.readable THEN Raise("OSError", "read failed", 1)
    ELSE IF ~validate_file_size(file.contents, "excel")
    THEN RaiseHTTP(413, <<"Archivo demasiado grande">>, 1)
    ELSE Return("Archivo Excel cargado exitosamente",
                [filename |-> file.filename, size_bytes |-> file.contents.size,
                 size_mb |-> size_mb(file.contents),
                 extension |-> splitext_ext(file.filename)], 1)

upload_excel(file) ==
    LET r == upload_excel_try(file)
    IN IF IsInstance(r.exc, "Exception")
       THEN RaiseHTTP(500, <<"Error al procesar Excel: ">> \o Str(r), r.reads)
       ELSE r

\* A preview cut from the top of the rows: rows[0:5]
preview_rows_from_top(rows) == SubSeq(rows, 1, IF Len(rows) < 5 THEN Len(rows) ELSE 5)

\* rows[1:6] if len(rows) > 1 else []
preview_rows(rows) ==
    IF Len(rows) > 1
    THEN SubSeq(rows, 2, IF Len(rows) < 6 THEN Len(rows) ELSE 6)
    ELSE <<>>

upload_csv_try(file) ==
    IF ~validate_file_extension(file.filename, "csv")
    THEN RaiseHTTP(400, <<"Solo se permiten archivos .csv">>, 0)
    ELSE IF ~file.readable THEN Raise("OSError", "read failed", 1)
    ELSE IF ~validate_file_size(file.contents, "csv")
    THEN RaiseHTTP(413, <<"Archivo demasiado grande">>, 1)
    ELSE IF ~file.contents.utf8
    THEN Raise("UnicodeDecodeError", "'utf-8' codec can't decode byte", 1)
    ELSE LET rows == csv_rows(file.contents)
             headers == IF rows # <<>> THEN rows[1] ELSE <<>>
         IN Return("CSV procesado exitosamente",
                   [filename |-> file.filename, size_bytes |-> file.contents.size,
                    size_mb |-> size_mb(file.contents), total_rows |-> Len(rows),
                    total_columns |-> Len(headers), columns |-> headers,
                    preview_rows |-> preview_rows(rows)], 1)

upload_csv(file) ==
    LET r == upload_csv_try(file)
    IN IF IsInstance(r.exc, "UnicodeDecodeError")
       THEN RaiseHTTP(400, <<"El archivo CSV tiene una codificacion no valida. Use UTF-8">>, r.reads)
       ELSE IF IsInstance(r.exc, "Exception")
       THEN RaiseHTTP(500, <<"Error al procesar CSV: ">> \o Str(r), r.reads)
       ELSE r

upload_word_try(file) ==
    IF ~validate_file_extension(file.filename, "word")
    THEN RaiseHTTP(400, <<"Formato no permitido">>, 0)
    ELSE IF ~file.readable THEN Raise("OSError", "read failed", 1)
    ELSE IF ~validate_file_size(file.contents, "word")
    THEN RaiseHTTP(413, <<"Archivo demasiado grande">>, 1)
    ELSE Return("Documento Word cargado exitosamente",
                [filename |-> file.filename, size_bytes |-> file.contents.size,
                 size_mb |-> size_mb(file.contents),
                 extension |-> splitext_ext(file.filename)], 1)

upload_word(file) ==
    LET r == upload_word_try(file)
    IN IF IsInstance(r.exc, "Exception")
       THEN RaiseHTTP(500, <<"Error al procesar documento Word: ">> \o Str(r), r.reads)
       ELSE r

upload_audio_try(file) ==
    IF ~validate_file_extension(file.filename, "audio")
    THEN RaiseHTTP(400, <<"Formato no permitido">>, 0)
    ELSE IF ~file.readable THEN Raise("OSError", "read failed", 1)
    ELSE IF ~validate_file_size(file.contents, "audio")
    THEN RaiseHTTP(413, <<"Archivo demasiado grande">>, 1)
    ELSE Return("Archivo de audio cargado exitosamente",
                [filename |-> file.filename, content_type |-> file.content_type,
                 size_bytes |-> file.contents.size, size_mb |-> size_mb(file.contents),
                 extension |-> splitext_ext(file.filename)], 1)

upload_audio(file) ==
    LET r == upload_audio_try(file)
    IN IF IsInstance(r.exc, "Exception")
       THEN RaiseHTTP(500, <<"Error al procesar audio: ">> \o Str(r), r.reads)
       ELSE r

\* The inner try of upload_json: json.loads(contents.decode('utf-8')), with
\* "except json.JSONDecodeError" raising HTTPException(400).
upload_json_parse(contents) ==
    LET exc == IF ~contents.utf8 THEN "UnicodeDecodeError" ELSE json_loads(contents).exc
    IN IF IsInstance(exc, "JSONDecodeError")
       THEN RaiseHTTP(400, <<"JSON invalido: ", "Expecting value: line 1 column 1 (char 0)">>, 1)
       ELSE IF exc # "none" THEN Raise(exc, "'utf-8' codec can't decode byte", 1)
       ELSE ReturnJSON(NoBody, 1, 0)

\* An inspection that reports the same fields for every top-level value
upload_json_try_untyped(file) ==
    IF ~validate_file_extension(file.filename, "json")
    THEN RaiseHTTP(400, <<"Solo se permiten archivos .json">>, 0)
    ELSE IF ~file.readable THEN Raise("OSError", "read failed", 1)
    ELSE IF ~validate_file_size(file.contents, "json")
    THEN RaiseHTTP(413, <<"Archivo demasiado grande">>, 1)
    ELSE LET parse == upload_json_parse(file.contents)
             json_data == json_loads(file.contents)
         IN IF parse.exc # "none" THEN parse
            ELSE Return("JSON procesado exitosamente",
                        [filename |-> file.filename, size_bytes |-> file.contents.size,
                         size_mb |-> size_mb(file.contents), data_type |-> json_data.type,
                         is_valid |-> TRUE, keys |-> json_data.keys,
                         key_count |-> Len(json_data.keys)], 1)

upload_json_try(file) ==
    IF ~validate_file_extension(file.filename, "json")
    THEN RaiseHTTP(400, <<"Solo se permiten archivos .json">>, 0)
    ELSE IF ~file.readable THEN Raise("OSError", "read failed", 1)
    ELSE IF ~validate_file_size(file.contents, "json")
    THEN RaiseHTTP(413, <<"Archivo demasiado grande">>, 1)
    ELSE LET parse == upload_json_parse(file.contents)
             json_data == json_loads(file.contents)
             json_info == [filename |-> file.filename, size_bytes |-> file.contents.size,
                           size_mb |-> size_mb(file.contents), data_type |-> json_data.type,
                           is_valid |-> TRUE]
         IN IF parse.exc # "none" THEN parse
            ELSE IF json_data.type = "dict"
            THEN Return("JSON procesado exitosamente",
                        [filename |-> file.filename, size_bytes |-> file.contents.size,
                         size_mb |-> size_mb(file.contents), data_type |-> json_data.type,
                         is_valid |-> TRUE, keys |-> json_data.keys,
                         key_count |-> Len(json_data.keys)], 1)
            ELSE IF json_data.type = "list"
            THEN Return("JSON procesado exitosamente",
                        [filename |-> file.filename, size_bytes |-> file.contents.size,
                         size_mb |-> size_mb(file.contents), data_type |-> json_data.type,
                         is_valid |-> TRUE, array_length |-> json_data.length], 1)
            ELSE Return("JSON procesado exitosamente", json_info, 1)

upload_json(file) ==
    LET r == upload_json_try(file)
    IN IF IsInstance(r.exc, "UnicodeDecodeError")
       THEN RaiseHTTP(400, <<"El archivo JSON tiene una codificacion no valida. Use UTF-8">>, r.reads)
       ELSE IF IsInstance(r.exc, "Exception")
       THEN RaiseHTTP(500, <<"Error al procesar JSON: ">> \o Str(r), r.reads)
       ELSE r

\* The inner try of upload_xml: ET.fromstring(contents.decode('utf-8')), with
\* "except ET.ParseError" raising HTTPException(400).
upload_xml_parse(contents) ==
    LET exc == IF ~contents.utf8 THEN "UnicodeDecodeError" ELSE ET_fromstring(contents).exc
    IN IF IsInstance(exc, "ParseError")
       THEN RaiseHTTP(400, <<"XML invalido: ", "syntax error: line 1, column 0">>, 1)
       ELSE IF exc # "none" THEN Raise(exc, "'utf-8' codec can't decode byte", 1)
       ELSE ReturnJSON(NoBody, 1, 0)

upload_xml_try(file) ==
    IF ~validate_file_extension(file.filename, "xml")
    THEN RaiseHTTP(400, <<"Solo se permiten archivos .xml">>, 0)
    ELSE IF ~file.readable THEN Raise("OSError", "read failed", 1)
    ELSE IF ~validate_file_size(file.contents, "xml")
    THEN RaiseHTTP(413, <<"Archivo demasiado grande">>, 1)
    ELSE LET parse == upload_xml_parse(file.contents)
             root == ET_fromstring(file.contents).root
         IN IF parse.exc # "none" THEN parse
            ELSE Return("XML procesado exitosamente",
                        [filename |-> file.filename, size_bytes |-> file.contents.size,
                         size_mb |-> size_mb(file.contents), root_tag |-> root.tag,
                         total_elements |-> count_elements(root),
                         root_attributes |-> root.attrib, is_valid |-> TRUE], 1)

upload_xml(file) ==
    LET r == upload_xml_try(file)
    IN IF IsInstance(r.exc, "UnicodeDecodeError")
       THEN RaiseHTTP(400, <<"El archivo XML tiene una codificacion no valida. Use UTF-8">>, r.reads)
       ELSE IF IsInstance(r.exc, "Exception")
       THEN RaiseHTTP(500, <<"Error al procesar XML: ">> \o Str(r), r.reads)
       ELSE r

\* An info route that reports the default limit for every category
get_upload_info_default_limit ==
    Return("Informacion de tipos de archivos soportados",
           [supported_types |->
              [t \in DOMAIN ALLOWED_EXTENSIONS |->
                 [extensions |-> ALLOWED_EXTENSIONS[t], max_size_mb |-> DEFAULT_MAX_SIZE \div MB]]],
           0)

\* get_upload_info: per category, the extensions and the limit in MB
get_upload_info ==
    Return("Informacion de tipos de archivos soportados",
           [supported_types |->
              [t \in DOMAIN ALLOWED_EXTENSIONS |->
                 [extensions |-> ALLOWED_EXTENSIONS[t], max_size_mb |-> MAX_FILE_SIZE[t] \div MB]]],
           0)

-----------------------------------------------------------------------------
(* The batch handler of router.py *)

\* "for ftype, extensions in ALLOWED_EXTENSIONS.items(): if ext in extensions: ... break"
\* the first category, in dict order, whose list holds ext; "" (None) when there is none
file_type_of(ext) ==
    LET hits == {i \in DOMAIN FILE_TYPES : ext \in Range(ALLOWED_EXTENSIONS[FILE_TYPES[i]])}
    IN IF hits = {} THEN ""
       ELSE FILE_TYPES[CHOOSE i \in hits : \A j \in hits : i <= j]

\* An iteration that looks the suffix up as it is written
batch_item_case_sensitive(file) ==
    LET ext == splitext_ext(file.filename)
        file_type == file_type_of(ext)
    IN IF ~file.readable
       THEN [filename |-> file.filename, success |-> FALSE, error |-> "read failed",
             file_type |-> "", size_mb |-> 0]
       ELSE IF file_type = ""
       THEN [filename |-> file.filename, success |-> FALSE,
             error |-> "Tipo de archivo no soportado", file_type |-> "", size_mb |-> 0]
       ELSE IF ~validate_file_size(file.contents, file_type)
       THEN [filename |-> file.filename, success |-> FALSE,
             error |-> "Archivo demasiado grande", file_type |-> "", size_mb |-> 0]
       ELSE [filename |-> file.filename, success |-> TRUE, error |-> "",
             file_type |-> file_type, size_mb |-> size_mb(file.contents)]

\* An iteration that does not compare the size with the category's limit
batch_item_no_size_check(file) ==
    LET ext == lower(splitext_ext(file.filename))
        file_type == file_type_of(ext)
    IN IF ~file.readable
       THEN [filename |-> file.filename, success |-> FALSE, error |-> "read failed",
             file_type |-> "", size_mb |-> 0]
       ELSE IF file_type = ""
       THEN [filename |-> file.filename, success |-> FALSE,
             error |-> "Tipo de archivo no soportado", file_type |-> "", size_mb |-> 0]
       ELSE [filename |-> file.filename, success |-> TRUE, error |-> "",
             file_type |-> file_type, size_mb |-> size_mb(file.contents)]

\* One iteration of the loop of upload_multiple_files: the entry appended to results.
batch_item(file) ==
    LET ext == lower(splitext_ext(file.filename))
        file_type == file_type_of(ext)
    IN IF ~file.readable
       THEN [filename |-> file.filename, success |-> FALSE, error |-> "read failed",
             file_type |-> "", size_mb |-> 0]
       ELSE IF file_type = ""
       THEN [filename |-> file.filename, success |-> FALSE,
             error |-> "Tipo de archivo no soportado", file_type |-> "", size_mb |-> 0]
       ELSE IF ~validate_file_size(file.contents, file_type)
       THEN [filename |-> file.filename, success |-> FALSE,
             error |-> "Archivo demasiado grande", file_type |-> "", size_mb |-> 0]
       ELSE [filename |-> file.filename, success |-> TRUE, error |-> "",
             file_type |-> file_type, size_mb |-> size_mb(file.contents)]

RECURSIVE batch_loop_abort(_, _)
\* A loop that stops at the first failing file
batch_loop_abort(files, results) ==
    IF files = <<>> THEN results
    ELSE IF ~batch_item(Head(files)).success THEN Append(results, batch_item(Head(files)))
    ELSE batch_loop_abort(Tail(files), Append(results, batch_item(Head(files))))

RECURSIVE batch_loop(_, _)
\* The loop "for file in files": results after processing the files left, in order
batch_loop(files, results) ==
    IF files = <<>> THEN results
    ELSE batch_loop(Tail(files), Append(results, batch_item(Head(files))))

\* The cap applied as "at least 10"
upload_multiple_files_cap_early(files) ==
    IF Len(files) >= MAX_BATCH_FILES
    THEN RaiseHTTP(400, <<"Maximo 10 archivos por solicitud">>, 0)
    ELSE LET results == batch_loop(files, <<>>)
         IN Return("Procesados archivos", [results |-> results, processed |-> Len(results)],
                   Len(files))

upload_multiple_files(files) ==
    IF Len(files) > MAX_BATCH_FILES
    THEN RaiseHTTP(400, <<"Maximo 10 archivos por solicitud">>, 0)
    ELSE LET results == batch_loop(files, <<>>)
         IN Return("Procesados archivos", [results |-> results, processed |-> Len(results)],
                   Len(files))

\* The single-upload route of a category: POST /files/upload/<file_type>
upload_route(file_type, file) ==
    CASE file_type = "image" -> upload_image(file)
      [] file_type = "video" -> upload_video(file)
      [] file_type = "zip" -> upload_zip(file)
      [] file_type = "pdf" -> upload_pdf(file)
      [] file_type = "excel" -> upload_excel(file)
      [] file_type = "csv" -> upload_csv(file)
      [] file_type = "word" -> upload_word(file)
      [] file_type = "audio" -> upload_audio(file)
      [] file_type = "json" -> upload_json(file)
      [] file_type = "xml" -> upload_xml(file)

-----------------------------------------------------------------------------
(* The file router as a state machine *)

UploadRoutes == {"image", "video", "zip", "pdf", "excel", "csv", "word", "audio", "json", "xml"}

NoRequest == [route |-> "none"]

NoResponse == [status |-> 0, body |-> NoBody]

\* Files of a batch: accepted, accepted under an upper-case suffix, of no
\* category, too large for its category, unreadable, and of a listed suffix
\* and a small size while the bytes are not a document of that category
BatchPool ==
    { UploadFile(<<"a", ".", "p", "d", "f">>, Payload(CHOOSE sh \in Shapes : sh.fmt = "pdf", 4), TRUE),
      UploadFile(<<"a", ".", "P", "N", "G">>, Payload(CHOOSE sh \in Shapes : sh.fmt = "image", 4), TRUE),
      UploadFile(<<"a", ".", "t", "x", "t">>, Payload(CHOOSE sh \in Shapes : sh.fmt = "csv", 4), TRUE),
      UploadFile(<<"a", ".", "J", "S", "O", "N">>,
                 Payload(CHOOSE sh \in Shapes : sh.fmt = "json_object", MAX_FILE_SIZE["json"] + 1), TRUE),
      UploadFile(<<"a", ".", "z", "i", "p">>, UnreadablePayload, FALSE),
      UploadFile(<<"a", ".", "j", "s", "o", "n">>, Payload(CHOOSE sh \in Shapes : sh.fmt = "garbage", 4), TRUE) }

\* Batches of up to MaxMixed files are enumerated in full; longer ones, up to
\* MaxBatchLen files, have a free prefix of MixedPrefix files and a uniform rest.
MaxMixed == 3

MaxBatchLen == 12

MixedPrefix == 2

BatchLists ==
    UNION {[1..n -> BatchPool] : n \in 1..MaxMixed}
    \cup { [i \in 1..n |-> IF i <= MixedPrefix THEN pre[i] ELSE rest] :
             n \in (MaxMixed + 1)..MaxBatchLen, pre \in [1..MixedPrefix -> BatchPool],
             rest \in BatchPool }

Init ==
    /\ pc = "idle"
    /\ request = NoRequest
    /\ response = NoResponse
    /\ file_reads = 0
    /\ remote_calls = 0
    /\ gemini_client \in {"none", "client"}
    /\ chat_history = <<>>
    /\ temperature = [pro |-> 7, flash |-> 7]
    /\ chat_session = <<>>
    /\ MAX_FILE_SIZE = MAX_FILE_SIZE_INIT
    /\ ALLOWED_EXTENSIONS = ALLOWED_EXTENSIONS_INIT

\* The handler's outcome becomes the response of the request in flight.
Finish(out) ==
    /\ response' = Respond(out)
    /\ file_reads' = out.reads
    /\ remote_calls' = out.remote
    /\ pc' = "done"
    /\ UNCHANGED request

\* A client posts one file to a single-upload route.
SubmitUpload ==
    /\ pc = "idle"
    /\ \E route \in UploadRoutes, file \in UploadFiles :
          request' = [route |-> route, file |-> file]
    /\ pc' = "pending"
    /\ UNCHANGED <<response, file_reads, remote_calls, gateway_vars, registry_vars>>

\* A client posts a list of files to /files/upload/multiple.
SubmitBatch ==
    /\ pc = "idle"
    /\ \E files \in BatchLists : request' = [route |-> "multiple", files |-> files]
    /\ pc' = "pending"
    /\ UNCHANGED <<response, file_reads, remote_calls, gateway_vars, registry_vars>>

\* A client gets /files/info.
SubmitInfo ==
    /\ pc = "idle"
    /\ request' = [route |-> "info"]
    /\ pc' = "pending"
    /\ UNCHANGED <<response, file_reads, remote_calls, gateway_vars, registry_vars>>

UploadImage ==
    /\ pc = "pending" /\ request.route = "image"
    /\ Finish(upload_image(request.file))
    /\ UNCHANGED <<gateway_vars, registry_vars>>

UploadVideo ==
    /\ pc = "pending" /\ request.route = "video"
    /\ Finish(upload_video(request.file))
    /\ UNCHANGED <<gateway_vars, registry_vars>>

UploadZip ==
    /\ pc = "pending" /\ request.route = "zip"
    /\ Finish(upload_zip(request.file))
    /\ UNCHANGED <<gateway_vars, registry_vars>>

UploadPdf ==
    /\ pc = "pending" /\ request.route = "pdf"
    /\ Finish(upload_pdf(request.file))
    /\ UNCHANGED <<gateway_vars, registry_vars>>

UploadExcel ==
    /\ pc = "pending" /\ request.route = "excel"
    /\ Finish(upload_excel(request.file))
    /\ UNCHANGED <<gateway_vars, registry_vars>>

UploadCsv ==
    /\ pc = "pending" /\ request.route = "csv"
    /\ Finish(upload_csv(request.file))
    /\ UNCHANGED <<gateway_vars, registry_vars>>

UploadWord ==
    /\ pc = "pending" /\ request.route = "word"
    /\ Finish(upload_word(request.file))
    /\ UNCHANGED <<gateway_vars, registry_vars>>

UploadAudio ==
    /\ pc = "pending" /\ request.route = "audio"
    /\ Finish(upload_audio(request.file))
    /\ UNCHANGED <<gateway_vars, registry_vars>>

UploadJson ==
    /\ pc = "pending" /\ request.route = "json"
    /\ Finish(upload_json(request.file))
    /\ UNCHANGED <<gateway_vars, registry_vars>>

UploadXml ==
    /\ pc = "pending" /\ request.route = "xml"
    /\ Finish(upload_xml(request.file))
    /\ UNCHANGED <<gateway_vars, registry_vars>>

UploadMultiple ==
    /\ pc = "pending" /\ request.route = "multiple"
    /\ Finish(upload_multiple_files(request.files))
    /\ UNCHANGED <<gateway_vars, registry_vars>>

GetUploadInfo ==
    /\ pc = "pending" /\ request.route = "info"
    /\ Finish(get_upload_info)
    /\ UNCHANGED <<gateway_vars, registry_vars>>

\* The client receives the response; the server is ready for the next request.
Deliver ==
    /\ pc = "done"
    /\ pc' = "idle"
    /\ request' = NoRequest
    /\ response' = NoResponse
    /\ file_reads' = 0
    /\ remote_calls' = 0
    /\ UNCHANGED <<gateway_vars, registry_vars>>

Next ==
    \/ SubmitUpload
    \/ SubmitBatch
    \/ SubmitInfo
    \/ UploadImage
    \/ UploadVideo
    \/ UploadZip
    \/ UploadPdf
    \/ UploadExcel
    \/ UploadCsv
    \/ UploadWord
    \/ UploadAudio
    \/ UploadJson
    \/ UploadXml
    \/ UploadMultiple
    \/ GetUploadInfo
    \/ Deliver

Spec == Init /\ [][Next]_vars

-----------------------------------------------------------------------------
(* Properties of the file router *)

Served(route) == pc = "done" /\ request.route = route

ServedUpload == pc = "done" /\ request.route \in UploadRoutes

\* The lower-cased suffix of the request's filename is in the route's category
SuffixAccepted ==
    \E i \in DOMAIN ALLOWED_EXTENSIONS[request.route] :
        ALLOWED_EXTENSIONS[request.route][i] = lower(splitext_ext(request.file.filename))

WithinLimit == request.file.contents.size <= MAX_FILE_SIZE[request.route]

IsSuccessEnvelope ==
    response.status = 200 /\ "success" \in DOMAIN response.body /\ response.body.success

CarriesDescriptor == "data" \in DOMAIN response.body

HasSignature ==
    /\ Len(request.file.contents.head) >= 4
    /\ SubSeq(request.file.contents.head, 1, 4) = <<"%", "P", "D", "F">>

JsonFormats == {"json_object", "json_array", "json_scalar"}

\* The format-specific inspection of the route cannot succeed on the payload
InspectionFails ==
    LET c == request.file.contents
    IN \/ request.route = "image" /\ c.fmt # "image"
       \/ request.route = "zip" /\ c.fmt # "zip"
       \/ request.route = "pdf" /\ ~HasSignature
       \/ request.route = "csv" /\ ~c.utf8
       \/ request.route = "json" /\ (~c.utf8 \/ c.fmt \notin JsonFormats)
       \/ request.route = "xml" /\ (~c.utf8 \/ c.fmt # "xml")

\* C1 (as claimed): on each single-upload route, a filename whose lower-cased
\* suffix is not in the category's ALLOWED_EXTENSIONS entry is answered with
\* HTTP 400, whatever the payload is.
C1_BadExtensionGets400 ==
    (ServedUpload /\ ~SuffixAccepted) => response.status = 400

\* C2 (as claimed): on each single-upload route, a payload with an accepted
\* extension that is longer than MAX_FILE_SIZE[category] is answered with HTTP 413.
C2_OversizeGets413 ==
    (ServedUpload /\ SuffixAccepted /\ request.file.readable /\ ~WithinLimit)
        => response.status = 413

\* C3: on every single-upload route a success response or a descriptor is
\* produced only when the extension check and the size check passed (and the
\* file was read once); when a check or the format-specific inspection fails
\* the response is an HTTP error that carries neither a success envelope nor a
\* descriptor.
C3_DescriptorOnlyAfterChecks ==
    ServedUpload =>
        /\ (response.status = 200 \/ CarriesDescriptor)
              => (SuffixAccepted /\ WithinLimit /\ request.file.readable /\ file_reads = 1
                  /\ IsSuccessEnvelope /\ CarriesDescriptor)
        /\ (~SuffixAccepted \/ ~WithinLimit \/ ~request.file.readable \/ InspectionFails)
              => (response.status >= 400 /\ ~CarriesDescriptor
                  /\ "success" \notin DOMAIN response.body)

C3_Witness ==
    Served("csv") /\ IsSuccessEnvelope /\ CarriesDescriptor
    /\ request.file.contents.size = MAX_FILE_SIZE["csv"]

\* C4: a batch of more than 10 files is rejected as a whole with HTTP 400,
\* before any file is read and with no per-item result; a batch of 10 or fewer
\* files is never rejected as a whole.
C4_BatchCap ==
    Served("multiple") =>
        /\ Len(request.files) > 10
              => (response.status = 400 /\ file_reads = 0 /\ ~CarriesDescriptor)
        /\ Len(request.files) <= 10
              => (response.status = 200 /\ IsSuccessEnvelope)

C4_Witness ==
    Served("multiple") /\ Len(request.files) = 11 /\ response.status = 400 /\ file_reads = 0

\* The file's lower-cased suffix is in the extension list of category t
InCategory(file, t) ==
    \E i \in DOMAIN ALLOWED_EXTENSIONS[t] :
        ALLOWED_EXTENSIONS[t][i] = lower(splitext_ext(file.filename))

\* The file must fail in a batch: unreadable, of no category, or too large for
\* every category that lists its suffix
MustFail(file) ==
    \/ ~file.readable
    \/ \A t \in DOMAIN ALLOWED_EXTENSIONS : ~InCategory(file, t)
    \/ \E t \in DOMAIN ALLOWED_EXTENSIONS :
           InCategory(file, t) /\ file.contents.size > MAX_FILE_SIZE[t]

\* C5: for a batch of n <= 10 files the response is HTTP 200 with exactly n
\* results in submission order, entry i naming file i; entry i fails iff file i
\* has no matching extension, exceeds its category's limit or raised; and the
\* entry of a file is the same wherever and beside whatever files it is submitted.
C5_BatchPerItem ==
    (Served("multiple") /\ Len(request.files) <= 10) =>
        /\ response.status = 200
        /\ CarriesDescriptor
        /\ Len(response.body.data.results) = Len(request.files)
        /\ \A i \in DOMAIN request.files :
              /\ response.body.data.results[i].filename = request.files[i].filename
              /\ response.body.data.results[i].success = ~MustFail(request.files[i])
        /\ \A i, j \in DOMAIN request.files :
              request.files[i] = request.files[j]
                 => response.body.data.results[i] = response.body.data.results[j]

C5_Witness ==
    /\ Served("multiple") /\ Len(request.files) = 3 /\ response.status = 200
    /\ response.body.data.results[1].success
    /\ ~response.body.data.results[2].success
    /\ response.body.data.results[3].success

\* C8: on the pdf route a readable payload with suffix .pdf, within the size
\* limit, whose first four bytes are %PDF is answered with a success envelope
\* whose data has is_valid true, whatever the other bytes are.
C8_PdfSignatureIsValid ==
    (Served("pdf") /\ SuffixAccepted /\ request.file.readable /\ WithinLimit /\ HasSignature)
        => (IsSuccessEnvelope /\ CarriesDescriptor /\ response.body.data.is_valid)

C8_Witness ==
    /\ Served("pdf") /\ IsSuccessEnvelope /\ request.file.contents.size = 4
    /\ request.file.contents.fmt = "pdf" /\ ~request.file.contents.utf8

\* A payload that passed both checks and violates the route's format:
\* no %PDF signature, or decodable text that is not JSON / not XML
FormatViolation ==
    LET c == request.file.contents
    IN \/ request.route = "pdf" /\ ~HasSignature
       \/ request.route = "json" /\ c.utf8 /\ c.fmt \notin JsonFormats
       \/ request.route = "xml" /\ c.utf8 /\ c.fmt # "xml"

\* C9 (as claimed): a format violation found while inspecting a payload that
\* passed the extension and size checks is answered with HTTP 400.
C9_FormatViolationGets400 ==
    (ServedUpload /\ SuffixAccepted /\ request.file.readable /\ WithinLimit /\ FormatViolation)
        => response.status = 400

\* C10: a .zip payload within the limit that is no zip container, and a .csv,
\* .json or .xml payload within the limit that is not valid UTF-8, are answered
\* with HTTP 400 and no success envelope.
C10_CorruptOrUndecodableGets400 ==
    (/\ ServedUpload /\ SuffixAccepted /\ request.file.readable /\ WithinLimit
     /\ \/ request.route = "zip" /\ request.file.contents.fmt # "zip"
        \/ request.route \in {"csv", "json", "xml"} /\ ~request.file.contents.utf8)
        => (response.status = 400 /\ "success" \notin DOMAIN response.body)

C10_Witness ==
    /\ Served("zip") /\ SuffixAccepted /\ WithinLimit /\ request.file.readable
    /\ request.file.contents.fmt = "garbage" /\ response.status = 400

-----------------------------------------------------------------------------
(* The Gemini gateway (gemini_api.py).  The remote service is an input:    *)
(* "ok" (a reply with text), "raise" (the call raises) or "no_text" (the   *)
(* call returns a response whose .text accessor raises ValueError).        *)
(* Temperatures are in tenths.  Every operation returns its envelope, the  *)
(* number of remote calls it made, and the gateway state it leaves.        *)

GEMINI_MODELS ==
    [pro |-> "gemini-1.5-pro-latest", flash |-> "gemini-1.5-flash-latest",
     vision |-> "gemini-1.5-pro-latest"]

DEFAULT_TEMPERATURE == 7

Remotes == {"ok", "raise", "no_text"}

\* {"success": True, **fields}
Ok(fields) == [success |-> TRUE] @@ fields

\* the "except Exception as e" envelope: {"success": False, "error": str(e)}
Fail(error) == [success |-> FALSE, error |-> error]

GatewayResult(result, remote, history, temps) ==
    [result |-> result, remote |-> remote, history |-> history, temperature |-> temps,
     started_with |-> <<>>, generated_at |-> 0]

\* "self.model_pro if model == 'pro' else self.model_flash"
selected_model(model) == IF model = "pro" THEN "pro" ELSE "flash"

\* model.generate_content(...) followed by response.text
RemoteError(remote) ==
    IF remote = "raise" THEN "remote call failed"
    ELSE "response.text requires the response to contain a valid Part"

analyze_text(text, model, temp, remote, history, temps) ==
    LET selected == selected_model(model)
        temps1 == IF temp # DEFAULT_TEMPERATURE THEN [temps EXCEPT ![selected] = temp] ELSE temps
        result == IF remote # "ok" THEN Fail(RemoteError(remote))
                  ELSE IF model \notin DOMAIN GEMINI_MODELS THEN Fail("KeyError")
                  ELSE Ok([response |-> "reply", model_used |-> GEMINI_MODELS[model]])
    IN [GatewayResult(result, 1, history, temps1) EXCEPT !.generated_at = temps1[selected]]

UserRecord(message) == [role |-> "user", content |-> message]

ModelRecord(text) == [role |-> "model", content |-> text]

\* the history argument of start_chat:
\* [{"role": msg["role"], "parts": [msg["content"]]} for msg in self.chat_history]
start_chat_history(history) ==
    [i \in DOMAIN history |-> [role |-> history[i].role, parts |-> <<history[i].content>>]]

\* A chat whose remote session starts from an empty history
chat_isolated(message, model, clear_history, remote, history, temps) ==
    LET h0 == IF clear_history THEN <<>> ELSE history
        h2 == h0 \o <<UserRecord(message), ModelRecord("reply")>>
        result == IF remote # "ok" THEN Fail(RemoteError(remote))
                  ELSE Ok([response |-> "reply", history_length |-> Len(h2)])
    IN [GatewayResult(result, 1, IF remote = "ok" THEN h2 ELSE h0, temps)
           EXCEPT !.started_with = <<(<<>>)>>]

\* A chat that reports the length the history had before its appends
chat_counting_before(message, model, clear_history, remote, history, temps) ==
    LET h0 == IF clear_history THEN <<>> ELSE history
        h1 == Append(h0, UserRecord(message))
        h2 == Append(h1, ModelRecord("reply"))
        res == IF remote = "raise" THEN GatewayResult(Fail(RemoteError(remote)), 1, h0, temps)
               ELSE IF remote = "no_text"
               THEN GatewayResult(Fail(RemoteError(remote)), 1, h1, temps)
               ELSE IF model \notin DOMAIN GEMINI_MODELS
               THEN GatewayResult(Fail("KeyError"), 1, h2, temps)
               ELSE GatewayResult(Ok([response |-> "reply", history_length |-> Len(h0),
                                      model_used |-> GEMINI_MODELS[model]]), 1, h2, temps)
    IN [res EXCEPT !.started_with = <<start_chat_history(h0)>>, !.generated_at = temps[selected_model(model)]]

chat(message, model, clear_history, remote, history, temps) ==
    LET h0 == IF clear_history THEN <<>> ELSE history
        h1 == Append(h0, UserRecord(message))
        h2 == Append(h1, ModelRecord("reply"))
        res == IF remote = "raise" THEN GatewayResult(Fail(RemoteError(remote)), 1, h0, temps)
               ELSE IF remote = "no_text"
               THEN GatewayResult(Fail(RemoteError(remote)), 1, h1, temps)
               ELSE IF model \notin DOMAIN GEMINI_MODELS
               THEN GatewayResult(Fail("KeyError"), 1, h2, temps)
               ELSE GatewayResult(Ok([response |-> "reply", history_length |-> Len(h2),
                                      model_used |-> GEMINI_MODELS[model]]), 1, h2, temps)
    IN [res EXCEPT !.started_with = <<start_chat_history(h0)>>, !.generated_at = temps[selected_model(model)]]

get_chat_history(history) == history

\* A clear that reports the count and keeps the records
clear_chat_history_keep(history, temps) ==
    GatewayResult(Ok([messages_cleared |-> Len(history)]), 0, history, temps)

clear_chat_history(history, temps) ==
    GatewayResult(Ok([messages_cleared |-> Len(history)]), 0, <<>>, temps)

analyze_image(image_data, prompt, remote, history, temps) ==
    LET image == Image_open(image_data)
    IN IF image.exc # "none"
       THEN GatewayResult(Fail("cannot identify image file"), 0, history, temps)
       ELSE IF remote # "ok" THEN GatewayResult(Fail(RemoteError(remote)), 1, history, temps)
       ELSE GatewayResult(Ok([analysis |-> "reply", image_width |-> image.width,
                              image_height |-> image.height, image_format |-> image.format,
                              prompt_used |-> prompt]), 1, history, temps)

compare_images(image1_data, image2_data, prompt, remote, history, temps) ==
    LET image1 == Image_open(image1_data)
        image2 == Image_open(image2_data)
    IN IF image1.exc # "none" \/ image2.exc # "none"
       THEN GatewayResult(Fail("cannot identify image file"), 0, history, temps)
       ELSE IF remote # "ok" THEN GatewayResult(Fail(RemoteError(remote)), 1, history, temps)
       ELSE GatewayResult(Ok([comparison |-> "reply",
                              image1_width |-> image1.width, image1_height |-> image1.height,
                              image2_width |-> image2.width, image2_height |-> image2.height]),
                          1, history, temps)

analyze_document(document, analysis_type, remote, history, temps) ==
    IF remote # "ok" THEN GatewayResult(Fail(RemoteError(remote)), 1, history, temps)
    ELSE GatewayResult(Ok([analysis_type |-> analysis_type, result |-> "reply",
                           document_length |-> document.size]), 1, history, temps)

\* The model's reply is a sequence of tokens: "FENCE" (the three-backquote
\* code fence), the word "json",
\* the line break "\n", a JSON document ("{}", "[1]", "7") or other text.
Whitespace == {"\n", " "}

JsonDocuments == {"{}", "[1]", "7"}

\* str.strip()
RECURSIVE lstrip(_)
lstrip(text) ==
    IF text # <<>> /\ Head(text) \in Whitespace THEN lstrip(Tail(text)) ELSE text

RECURSIVE rstrip(_)
rstrip(text) ==
    IF text # <<>> /\ text[Len(text)] \in Whitespace
    THEN rstrip(SubSeq(text, 1, Len(text) - 1)) ELSE text

strip(text) == rstrip(lstrip(text))

\* str.replace(old, ""): every occurrence of old, leftmost first, is removed
RECURSIVE remove(_, _)
remove(text, old) ==
    IF Len(text) < Len(old) THEN text
    ELSE IF SubSeq(text, 1, Len(old)) = old
    THEN remove(SubSeq(text, Len(old) + 1, Len(text)), old)
    ELSE <<Head(text)>> \o remove(Tail(text), old)

\* json.loads of a reply: one JSON document, white space around it allowed
reply_loads(text) ==
    LET doc == strip(text)
    IN IF Len(doc) = 1 /\ doc[1] \in JsonDocuments
       THEN [exc |-> "none", value |-> [json |-> doc[1]]]
       ELSE [exc |-> "JSONDecodeError", value |-> NoData]

\* An extraction that fails when the reply is not JSON
extract_structured_data_strict(document, schema, reply, remote, history, temps) ==
    LET parsed == reply_loads(remove(remove(strip(reply), <<"FENCE", "json">>), <<"FENCE">>))
    IN IF schema # "dict" THEN GatewayResult(Fail("AttributeError"), 0, history, temps)
       ELSE IF remote # "ok" THEN GatewayResult(Fail(RemoteError(remote)), 1, history, temps)
       ELSE IF parsed.exc # "none" THEN GatewayResult(Fail(parsed.exc), 1, history, temps)
       ELSE GatewayResult(Ok([extracted_data |-> parsed.value, schema_used |-> schema]),
                          1, history, temps)

\* schema: the kind of JSON value the route's schema field parsed to
extract_structured_data(document, schema, reply, remote, history, temps) ==
    LET parsed == reply_loads(remove(remove(strip(reply), <<"FENCE", "json">>), <<"FENCE">>))
        extracted_data == IF parsed.exc = "none" THEN parsed.value
                          ELSE [raw_response |-> reply]
    IN IF schema # "dict" THEN GatewayResult(Fail("AttributeError"), 0, history, temps)
       ELSE IF remote # "ok" THEN GatewayResult(Fail(RemoteError(remote)), 1, history, temps)
       ELSE GatewayResult(Ok([extracted_data |-> extracted_data, schema_used |-> schema]),
                          1, history, temps)

analyze_sentiment(text, detailed, remote, history, temps) ==
    IF remote # "ok" THEN GatewayResult(Fail(RemoteError(remote)), 1, history, temps)
    ELSE GatewayResult(Ok([sentiment_analysis |-> "reply", text_length |-> Len(text),
                           detailed |-> detailed]), 1, history, temps)

translate_text(text, target_language, source_language, remote, history, temps) ==
    IF remote # "ok" THEN GatewayResult(Fail(RemoteError(remote)), 1, history, temps)
    ELSE GatewayResult(Ok([original_text |-> text, translated_text |-> "reply",
                           source_language |-> source_language,
                           target_language |-> target_language]), 1, history, temps)

summarize_text(text, summary_length, bullet_points, remote, history, temps) ==
    IF remote # "ok" THEN GatewayResult(Fail(RemoteError(remote)), 1, history, temps)
    ELSE GatewayResult(Ok([summary |-> "reply", original_length |-> Len(text),
                           summary_length_type |-> summary_length,
                           bullet_points |-> bullet_points]), 1, history, temps)

generate_creative_content(prompt, content_type, temp, remote, history, temps) ==
    IF remote # "ok" THEN GatewayResult(Fail(RemoteError(remote)), 1, history, temps)
    ELSE [GatewayResult(Ok([content |-> "reply", content_type |-> content_type,
                            temperature |-> temp, prompt_used |-> prompt]), 1, history, temps)
          EXCEPT !.generated_at = temp]

check_grammar(text, language, remote, history, temps) ==
    IF remote # "ok" THEN GatewayResult(Fail(RemoteError(remote)), 1, history, temps)
    ELSE GatewayResult(Ok([result |-> "reply", original_text |-> text, language |-> language]),
                       1, history, temps)

analyze_tabular_data(document, analysis_request, remote, history, temps) ==
    IF remote # "ok" THEN GatewayResult(Fail(RemoteError(remote)), 1, history, temps)
    ELSE GatewayResult(Ok([analysis |-> "reply", data_length |-> document.size,
                           request |-> analysis_request]), 1, history, temps)

PREVIEW_LENGTH == 100

\* text[:100] + "..." if len(text) > 100 else text
text_preview(text) ==
    IF Len(text) > PREVIEW_LENGTH
    THEN SubSeq(text, 1, PREVIEW_LENGTH) \o <<".", ".", ".">>
    ELSE text

\* genai.embed_content(content=text): the vector the remote service returns
\* to the call-th call, which stands for the call it answers
embed_content(call, content) == [embedding |-> << [call |-> call, content |-> content] >>]

\* The record appended for the i-th text
embedding_record(texts, i) ==
    [text |-> text_preview(texts[i]), embedding |-> embed_content(i, texts[i]).embedding,
     dimensions |-> Len(embed_content(i, texts[i]).embedding)]

\* An operation whose failure envelope carries the embeddings made so far
generate_embeddings_partial(texts, task_type, fail_at, history, temps) ==
    IF fail_at \in DOMAIN texts
    THEN GatewayResult(Fail("remote call failed")
                          @@ [embeddings |-> [i \in 1..(fail_at - 1) |-> embedding_record(texts, i)]],
                       fail_at, history, temps)
    ELSE GatewayResult(Ok([embeddings |-> [i \in DOMAIN texts |-> embedding_record(texts, i)],
                           total_texts |-> Len(texts), task_type |-> task_type]),
                       Len(texts), history, temps)

\* fail_at: the index of the first genai.embed_content call that raises, 0 for none
generate_embeddings(texts, task_type, fail_at, history, temps) ==
    IF fail_at \in DOMAIN texts
    THEN GatewayResult(Fail("remote call failed"), fail_at, history, temps)
    ELSE GatewayResult(Ok([embeddings |-> [i \in DOMAIN texts |-> embedding_record(texts, i)],
                           total_texts |-> Len(texts), task_type |-> task_type]),
                       Len(texts), history, temps)

-----------------------------------------------------------------------------
(* The AI router (ai_routes.py).  A route returns its outcome and the      *)
(* gateway state it leaves.                                                *)

RouteResult(out, history, temps) ==
    [out |-> out, history |-> history, temperature |-> temps, session |-> <<>>]

\* return JSONResponse(content=result) for the result g of a gateway operation
FromGateway(g, reads) ==
    [RouteResult(ReturnJSON(g.result, reads, g.remote), g.history, g.temperature)
        EXCEPT !.session = g.started_with]

\* A check that never raises
check_gemini_available_never(client) == ReturnJSON(NoBody, 0, 0)

\* check_gemini_available(): raises 503 when gemini_client is None, else falls through
check_gemini_available(client) ==
    IF client = "none"
    THEN RaiseHTTP(503, <<"Servicio de IA no disponible. Configure GOOGLE_API_KEY">>, 0)
    ELSE ReturnJSON(NoBody, 0, 0)

\* content_type.startswith("image/")
is_image_type(content_type) == content_type[1] = "image"

\* str.endswith(suffix)
endswith(str, suffix) ==
    Len(str) >= Len(suffix) /\ SubSeq(str, Len(str) - Len(suffix) + 1, Len(str)) = suffix

analyze_text_endpoint(req, client, h, t) ==
    LET chk == check_gemini_available(client)
    IN IF chk.exc # "none" THEN RouteResult(chk, h, t)
       ELSE FromGateway(analyze_text(req.text, req.model, req.temperature, req.remote, h, t), 0)

chat_endpoint(req, client, h, t) ==
    LET chk == check_gemini_available(client)
    IN IF chk.exc # "none" THEN RouteResult(chk, h, t)
       ELSE FromGateway(chat(req.message, req.model, req.clear_history, req.remote, h, t), 0)

get_chat_history_endpoint(req, client, h, t) ==
    LET chk == check_gemini_available(client)
        history == get_chat_history(h)
    IN IF chk.exc # "none" THEN RouteResult(chk, h, t)
       ELSE RouteResult(ReturnJSON([success |-> TRUE, history |-> history,
                                    total_messages |-> Len(history)], 0, 0), h, t)

clear_chat_history_endpoint(req, client, h, t) ==
    LET chk == check_gemini_available(client)
    IN IF chk.exc # "none" THEN RouteResult(chk, h, t)
       ELSE FromGateway(clear_chat_history(h, t), 0)

analyze_image_endpoint(req, client, h, t) ==
    LET chk == check_gemini_available(client)
    IN IF chk.exc # "none" THEN RouteResult(chk, h, t)
       ELSE IF ~is_image_type(req.file.content_type)
       THEN RouteResult(RaiseHTTP(400, <<"El archivo debe ser una imagen">>, 0), h, t)
       ELSE IF ~req.file.readable THEN RouteResult(Raise("OSError", "read failed", 1), h, t)
       ELSE FromGateway(analyze_image(req.file.contents, req.prompt, req.remote, h, t), 1)

compare_images_endpoint(req, client, h, t) ==
    LET chk == check_gemini_available(client)
    IN IF chk.exc # "none" THEN RouteResult(chk, h, t)
       ELSE IF ~is_image_type(req.image1.content_type) \/ ~is_image_type(req.image2.content_type)
       THEN RouteResult(RaiseHTTP(400, <<"Ambos archivos deben ser imagenes">>, 0), h, t)
       ELSE IF ~req.image1.readable THEN RouteResult(Raise("OSError", "read failed", 1), h, t)
       ELSE IF ~req.image2.readable THEN RouteResult(Raise("OSError", "read failed", 2), h, t)
       ELSE FromGateway(compare_images(req.image1.contents, req.image2.contents, req.prompt,
                                       req.remote, h, t), 2)

\* "contents = await file.read(); text = contents.decode('utf-8')" inside a try
\* whose only clause is "except UnicodeDecodeError: raise HTTPException(400)"
read_text(file, detail) ==
    IF ~file.readable THEN Raise("OSError", "read failed", 1)
    ELSE IF ~file.contents.utf8 THEN RaiseHTTP(400, <<detail>>, 1)
    ELSE ReturnJSON(NoBody, 1, 0)

analyze_document_endpoint(req, client, h, t) ==
    LET chk == check_gemini_available(client)
        txt == read_text(req.file, "No se pudo decodificar el archivo. Use codificacion UTF-8")
    IN IF chk.exc # "none" THEN RouteResult(chk, h, t)
       ELSE IF txt.exc # "none" THEN RouteResult(txt, h, t)
       ELSE FromGateway(analyze_document(req.file.contents, req.analysis_type, req.remote, h, t), 1)

\* req.schema: "invalid" when the form field is not JSON, else the kind of value it parses to
extract_structured_data_endpoint(req, client, h, t) ==
    LET chk == check_gemini_available(client)
        txt == read_text(req.file, "No se pudo decodificar el archivo")
    IN IF chk.exc # "none" THEN RouteResult(chk, h, t)
       ELSE IF req.schema = "invalid"
       THEN RouteResult(RaiseHTTP(400, <<"Schema invalido. Use formato JSON valido">>, 0), h, t)
       ELSE IF txt.exc # "none" THEN RouteResult(txt, h, t)
       ELSE FromGateway(extract_structured_data(req.file.contents, req.schema, req.reply,
                                                req.remote, h, t), 1)

analyze_csv_endpoint(req, client, h, t) ==
    LET chk == check_gemini_available(client)
        txt == read_text(req.file, "Error al leer el archivo CSV")
    IN IF chk.exc # "none" THEN RouteResult(chk, h, t)
       ELSE IF ~endswith(req.file.filename, <<".", "c", "s", "v">>)
       THEN RouteResult(RaiseHTTP(400, <<"El archivo debe ser un CSV">>, 0), h, t)
       ELSE IF txt.exc # "none" THEN RouteResult(txt, h, t)
       ELSE FromGateway(analyze_tabular_data(req.file.contents, req.question, req.remote, h, t), 1)

analyze_sentiment_endpoint(req, client, h, t) ==
    LET chk == check_gemini_available(client)
    IN IF chk.exc # "none" THEN RouteResult(chk, h, t)
       ELSE FromGateway(analyze_sentiment(req.text, req.detailed, req.remote, h, t), 0)

translate_endpoint(req, client, h, t) ==
    LET chk == check_gemini_available(client)
    IN IF chk.exc # "none" THEN RouteResult(chk, h, t)
       ELSE FromGateway(translate_text(req.text, req.target_language, req.source_language,
                                       req.remote, h, t), 0)

summarize_endpoint(req, client, h, t) ==
    LET chk == check_gemini_available(client)
    IN IF chk.exc # "none" THEN RouteResult(chk, h, t)
       ELSE FromGateway(summarize_text(req.text, req.summary_length, req.bullet_points,
                                       req.remote, h, t), 0)

grammar_check_endpoint(req, client, h, t) ==
    LET chk == check_gemini_available(client)
    IN IF chk.exc # "none" THEN RouteResult(chk, h, t)
       ELSE FromGateway(check_grammar(req.text, req.language, req.remote, h, t), 0)

generate_content_endpoint(req, client, h, t) ==
    LET chk == check_gemini_available(client)
    IN IF chk.exc # "none" THEN RouteResult(chk, h, t)
       ELSE FromGateway(generate_creative_content(req.prompt, req.content_type, req.temperature,
                                                  req.remote, h, t), 0)

generate_embeddings_endpoint(req, client, h, t) ==
    LET chk == check_gemini_available(client)
    IN IF chk.exc # "none" THEN RouteResult(chk, h, t)
       ELSE FromGateway(generate_embeddings(req.texts, req.task_type, req.fail_at, h, t), 0)

combined_image_analysis(req, client, h, t) ==
    LET chk == check_gemini_available(client)
        image == Image_open(req.file.contents)
        ai == analyze_image(req.file.contents, req.prompt, req.remote, h, t)
    IN IF chk.exc # "none" THEN RouteResult(chk, h, t)
       ELSE IF ~is_image_type(req.file.content_type)
       THEN RouteResult(RaiseHTTP(400, <<"El archivo debe ser una imagen">>, 0), h, t)
       ELSE IF ~req.file.readable THEN RouteResult(Raise("OSError", "read failed", 1), h, t)
       ELSE IF image.exc # "none"
       THEN RouteResult(Raise(image.exc, "cannot identify image file", 1), h, t)
       ELSE RouteResult(
              ReturnJSON([success |-> TRUE,
                          file_info |-> [filename |-> req.file.filename, format |-> image.format,
                                         width |-> image.width, height |-> image.height,
                                         size_mb |-> size_mb(req.file.contents)],
                          ai_analysis |-> ai.result], 1, ai.remote),
              ai.history, ai.temperature)

combined_document_analysis(req, client, h, t) ==
    LET chk == check_gemini_available(client)
        txt == read_text(req.file, "Error al decodificar el archivo")
        ai == analyze_document(req.file.contents, req.analysis_type, req.remote, h, t)
    IN IF chk.exc # "none" THEN RouteResult(chk, h, t)
       ELSE IF txt.exc # "none" THEN RouteResult(txt, h, t)
       ELSE RouteResult(
              ReturnJSON([success |-> TRUE,
                          file_info |-> [filename |-> req.file.filename,
                                         size_mb |-> size_mb(req.file.contents),
                                         character_count |-> req.file.contents.size],
                          ai_analysis |-> ai.result], 1, ai.remote),
              ai.history, ai.temperature)

list_models(req, client, h, t) ==
    RouteResult(ReturnJSON([success |-> TRUE, models |-> GEMINI_MODELS], 0, 0), h, t)

gemini_status(req, client, h, t) ==
    RouteResult(ReturnJSON([success |-> TRUE, gemini_available |-> client # "none"], 0, 0), h, t)

-----------------------------------------------------------------------------
(* The AI router as a state machine *)

\* The longest conversation history explored
MaxHistory == 4

\* The largest number of texts in one embeddings request
MaxTexts == 2

ShapeOf(fmt) == CHOOSE sh \in Shapes : sh.fmt = fmt

PngName == <<"a", ".", "p", "n", "g">>

CsvName == <<"a", ".", "c", "s", "v">>

\* Uploads to the AI routes: a real image, bytes declared as an image that are
\* none, UTF-8 text, text under an upper-case suffix, undecodable bytes, and a
\* file whose read fails (the declared content type is the client's choice)
AIFiles ==
    { UploadFile(PngName, Payload(ShapeOf("image"), 4), TRUE),
      [UploadFile(PngName, Payload(ShapeOf("garbage"), 4), TRUE)
          EXCEPT !.content_type = <<"image", "png">>],
      UploadFile(CsvName, Payload(ShapeOf("csv"), 4), TRUE),
      UploadFile(<<"a", ".", "C", "S", "V">>, Payload(ShapeOf("csv"), 4), TRUE),
      UploadFile(CsvName, Payload(ShapeOf("garbage"), 4), TRUE),
      UploadFile(CsvName, Payload(ShapeOf("csv"), 4), FALSE),
      [UploadFile(PngName, Payload(ShapeOf("image"), 4), FALSE)
          EXCEPT !.content_type = <<"image", "png">>] }

AIImages == {f \in AIFiles : f.readable /\ f.filename = PngName} \cup
            {UploadFile(CsvName, Payload(ShapeOf("csv"), 4), TRUE)}

Models == {"pro", "flash", "ultra"}

Messages == {"from A", "from B"}

Temperatures == {DEFAULT_TEMPERATURE, 2}

ShortText == <<"h", "i">>

TextOfLen(n) == [i \in 1..n |-> "x"]

EmbedTexts == {ShortText, TextOfLen(PREVIEW_LENGTH), TextOfLen(PREVIEW_LENGTH + 1)}

TextLists == UNION {[1..n -> EmbedTexts] : n \in 1..MaxTexts}

\* Replies of the model to an extraction prompt: bare JSON, JSON in a json
\* fence, in a plain fence, in a fence with white space around it, a scalar,
\* prose, prose followed by fenced JSON, two documents, and an empty reply
Replies ==
    { <<"{}">>,
      <<"FENCE", "json", "\n", "{}", "\n", "FENCE">>,
      <<"FENCE", "\n", "[1]", "\n", "FENCE">>,
      <<"\n", "FENCE", "json", "\n", "{}", "\n", "FENCE", "\n">>,
      <<"7">>,
      <<"text">>,
      <<"text", "\n", "FENCE", "json", "\n", "{}", "\n", "FENCE">>,
      <<"{}", " ", "{}">>,
      <<>> }

AIRequests ==
    {[route |-> "analyze-text", text |-> ShortText, model |-> m, temperature |-> tp,
      remote |-> r] : m \in Models, tp \in Temperatures, r \in Remotes}
    \cup {[route |-> "chat", message |-> msg, model |-> m, clear_history |-> c,
           remote |-> r] : msg \in Messages, m \in Models, c \in BOOLEAN, r \in Remotes}
    \cup {[route |-> "chat/history:GET"], [route |-> "chat/history:DELETE"],
          [route |-> "models"], [route |-> "status"]}
    \cup {[route |-> rt, file |-> f, prompt |-> "p", remote |-> r] :
            rt \in {"analyze-image", "combined/image-analysis"}, f \in AIFiles, r \in Remotes}
    \cup {[route |-> "compare-images", image1 |-> f1, image2 |-> f2, prompt |-> "p",
           remote |-> r] : f1 \in AIImages, f2 \in AIImages, r \in Remotes}
    \cup {[route |-> rt, file |-> f, analysis_type |-> "summary", remote |-> r] :
            rt \in {"analyze-document", "combined/document-analysis"}, f \in AIFiles,
            r \in Remotes}
    \cup {[route |-> "extract-structured-data", file |-> f, schema |-> sc, reply |-> rp,
           remote |-> r] :
            f \in {g \in AIFiles : g.filename = CsvName}, sc \in {"dict", "list", "invalid"},
            rp \in Replies, r \in Remotes}
    \cup {[route |-> "analyze-csv", file |-> f, question |-> "q", remote |-> r] :
            f \in AIFiles, r \in Remotes}
    \cup {[route |-> "sentiment", text |-> ShortText, detailed |-> d, remote |-> r] :
            d \in BOOLEAN, r \in Remotes}
    \cup {[route |-> "translate", text |-> ShortText, target_language |-> "en",
           source_language |-> "auto", remote |-> r] : r \in Remotes}
    \cup {[route |-> "summarize", text |-> ShortText, summary_length |-> "medium",
           bullet_points |-> FALSE, remote |-> r] : r \in Remotes}
    \cup {[route |-> "grammar-check", text |-> ShortText, language |-> "es", remote |-> r] :
            r \in Remotes}
    \cup {[route |-> "generate-content", prompt |-> "p", content_type |-> "general",
           temperature |-> 9, remote |-> r] : r \in Remotes}
    \cup {[route |-> "embeddings", texts |-> ts, task_type |-> "retrieval_document",
           fail_at |-> k] : ts \in TextLists, k \in 0..MaxTexts}

\* A client sends a request to a route under /ai; chats stop once the history
\* has reached the explored length.
SubmitAI ==
    /\ pc = "idle"
    /\ \E req \in AIRequests :
          /\ req.route = "chat" => Len(chat_history) + 2 <= MaxHistory
          /\ req.route = "embeddings" => req.fail_at <= Len(req.texts)
          /\ request' = req
    /\ pc' = "pending"
    /\ UNCHANGED <<response, file_reads, remote_calls, gateway_vars, registry_vars>>

\* The route's outcome becomes the response; the gateway state is what it left.
FinishAI(res) ==
    /\ Finish(res.out)
    /\ chat_history' = res.history
    /\ temperature' = res.temperature
    /\ chat_session' = IF res.session # <<>> THEN res.session ELSE chat_session
    /\ UNCHANGED <<gemini_client, registry_vars>>

Pending(route) == pc = "pending" /\ request.route = route

AnalyzeText ==
    Pending("analyze-text")
    /\ FinishAI(analyze_text_endpoint(request, gemini_client, chat_history, temperature))

Chat ==
    Pending("chat")
    /\ FinishAI(chat_endpoint(request, gemini_client, chat_history, temperature))

GetChatHistory ==
    Pending("chat/history:GET")
    /\ FinishAI(get_chat_history_endpoint(request, gemini_client, chat_history, temperature))

ClearChatHistory ==
    Pending("chat/history:DELETE")
    /\ FinishAI(clear_chat_history_endpoint(request, gemini_client, chat_history, temperature))

AnalyzeImage ==
    Pending("analyze-image")
    /\ FinishAI(analyze_image_endpoint(request, gemini_client, chat_history, temperature))

CompareImages ==
    Pending("compare-images")
    /\ FinishAI(compare_images_endpoint(request, gemini_client, chat_history, temperature))

AnalyzeDocument ==
    Pending("analyze-document")
    /\ FinishAI(analyze_document_endpoint(request, gemini_client, chat_history, temperature))

ExtractStructuredData ==
    Pending("extract-structured-data")
    /\ FinishAI(extract_structured_data_endpoint(request, gemini_client, chat_history, temperature))

AnalyzeCsv ==
    Pending("analyze-csv")
    /\ FinishAI(analyze_csv_endpoint(request, gemini_client, chat_history, temperature))

AnalyzeSentiment ==
    Pending("sentiment")
    /\ FinishAI(analyze_sentiment_endpoint(request, gemini_client, chat_history, temperature))

Translate ==
    Pending("translate")
    /\ FinishAI(translate_endpoint(request, gemini_client, chat_history, temperature))

Summarize ==
    Pending("summarize")
    /\ FinishAI(summarize_endpoint(request, gemini_client, chat_history, temperature))

GrammarCheck ==
    Pending("grammar-check")
    /\ FinishAI(grammar_check_endpoint(request, gemini_client, chat_history, temperature))

GenerateContent ==
    Pending("generate-content")
    /\ FinishAI(generate_content_endpoint(request, gemini_client, chat_history, temperature))

GenerateEmbeddings ==
    Pending("embeddings")
    /\ FinishAI(generate_embeddings_endpoint(request, gemini_client, chat_history, temperature))

CombinedImageAnalysis ==
    Pending("combined/image-analysis")
    /\ FinishAI(combined_image_analysis(request, gemini_client, chat_history, temperature))

CombinedDocumentAnalysis ==
    Pending("combined/document-analysis")
    /\ FinishAI(combined_document_analysis(request, gemini_client, chat_history, temperature))

ListModels ==
    Pending("models")
    /\ FinishAI(list_models(request, gemini_client, chat_history, temperature))

GeminiStatus ==
    Pending("status")
    /\ FinishAI(gemini_status(request, gemini_client, chat_history, temperature))

NextAI ==
    \/ SubmitAI
    \/ AnalyzeText
    \/ Chat
    \/ GetChatHistory
    \/ ClearChatHistory
    \/ AnalyzeImage
    \/ CompareImages
    \/ AnalyzeDocument
    \/ ExtractStructuredData
    \/ AnalyzeCsv
    \/ AnalyzeSentiment
    \/ Translate
    \/ Summarize
    \/ GrammarCheck
    \/ GenerateContent
    \/ GenerateEmbeddings
    \/ CombinedImageAnalysis
    \/ CombinedDocumentAnalysis
    \/ ListModels
    \/ GeminiStatus
    \/ Deliver

SpecAI == Init /\ [][NextAI]_vars

-----------------------------------------------------------------------------
(* Properties of the AI router *)

AIRoutes == {req.route : req \in AIRequests}

ServedAI == pc = "done" /\ request.route \in AIRoutes

InfoRoutes == {"models", "status"}

\* C6 (as claimed): without the credential every route under /ai answers 503,
\* makes no remote call and reads no uploaded file.
C6_EveryAIRouteUnavailable ==
    (ServedAI /\ gemini_client = "none")
        => (response.status = 503 /\ remote_calls = 0 /\ file_reads = 0)

\* C6 (amended): without the credential every route under /ai other than
\* /ai/models and /ai/status answers 503, with no remote call, no file read and
\* the gateway state untouched; /ai/models and /ai/status answer 200 without a
\* remote call or a file read, /ai/status reporting gemini_available false.
C6_GatedRoutesUnavailable ==
    (ServedAI /\ gemini_client = "none") =>
        /\ remote_calls = 0 /\ file_reads = 0
        /\ chat_history = <<>> /\ temperature = [pro |-> 7, flash |-> 7]
        /\ request.route \notin InfoRoutes
              => (response.status = 503 /\ "success" \notin DOMAIN response.body)
        /\ request.route \in InfoRoutes => (response.status = 200 /\ response.body.success)
        /\ request.route = "status" => ~response.body.gemini_available

C6_Witness ==
    /\ ServedAI /\ gemini_client = "none" /\ request.route = "analyze-image"
    /\ request.file.readable /\ request.remote = "ok" /\ response.status = 503

\* The handler reached a gateway operation whose remote call raised, or whose
\* reply had no text
RemoteRaised ==
    /\ ServedAI /\ gemini_client = "client" /\ remote_calls > 0
    /\ \/ "remote" \in DOMAIN request /\ request.remote # "ok"
       \/ "fail_at" \in DOMAIN request /\ request.fail_at > 0

\* C7 (as claimed): with the credential present, when the remote call or a
\* library call raises inside a gateway operation, the route answers 200 with
\* the body {success: false, error, timestamp}.
C7_UpstreamFailureInBand ==
    RemoteRaised =>
        /\ response.status = 200
        /\ "success" \in DOMAIN response.body /\ ~response.body.success
        /\ "error" \in DOMAIN response.body

-----------------------------------------------------------------------------
(* Properties of the conversation history *)

\* The step in which a handler of the AI router serves the pending request
\* with the credential present
ServesAI(route) ==
    pc = "pending" /\ pc' = "done" /\ gemini_client = "client" /\ request.route = route

Exchange(message) == <<UserRecord(message), ModelRecord("reply")>>

\* C11: the conversation history is one buffer shared by all callers: a chat
\* without clear_history starts its remote session with every record the
\* buffer holds, whoever sent it, a successful chat appends its exchange to
\* that same buffer, and GET /ai/chat/history returns the whole buffer.
C11_SharedHistory ==
    [][ /\ (ServesAI("chat") /\ ~request.clear_history) =>
              /\ chat_session' = <<start_chat_history(chat_history)>>
              /\ response'.body.success =>
                    chat_history' = chat_history \o Exchange(request.message)
        /\ ServesAI("chat/history:GET") =>
              /\ response'.body.history = chat_history
              /\ response'.body.total_messages = Len(chat_history)
              /\ chat_history' = chat_history ]_vars

\* Caller B's chat was started with caller A's exchange and answered with a
\* transcript of both
C11_Witness ==
    /\ ServedAI /\ request.route = "chat" /\ request.message = "from B"
    /\ ~request.clear_history /\ response.status = 200 /\ response.body.success
    /\ chat_session = <<start_chat_history(Exchange("from A"))>>
    /\ chat_history = Exchange("from A") \o Exchange("from B")

IsPrefix(s, t) == Len(s) <= Len(t) /\ SubSeq(t, 1, Len(s)) = s

ClearRequested ==
    \/ request.route = "chat/history:DELETE"
    \/ request.route = "chat" /\ request.clear_history

\* C12: the history is append-only between clears: a step that is not a clear
\* leaves the old history as a prefix of the new one, only chat and the clear
\* operation change it, and the clear operation leaves it empty and reports the
\* number of records it removed.
C12_AppendOnlyBetweenClears ==
    [][ /\ ~ClearRequested => IsPrefix(chat_history, chat_history')
        /\ chat_history' # chat_history =>
              (pc = "pending" /\ request.route \in {"chat", "chat/history:DELETE"})
        /\ ServesAI("chat/history:DELETE") =>
              /\ chat_history' = <<>>
              /\ response'.body.success
              /\ response'.body.messages_cleared = Len(chat_history) ]_vars

\* A clear that removed two exchanges
C12_Witness ==
    /\ ServedAI /\ request.route = "chat/history:DELETE" /\ response.status = 200
    /\ response.body.messages_cleared = 4 /\ chat_history = <<>>

-----------------------------------------------------------------------------
(* Properties of structured extraction *)

\* The reply with its code-fence markers taken out, in one pass
RECURSIVE WithoutFences(_)
WithoutFences(text) ==
    IF text = <<>> THEN <<>>
    ELSE IF Head(text) = "FENCE"
    THEN IF Len(text) >= 2 /\ text[2] = "json"
         THEN WithoutFences(SubSeq(text, 3, Len(text)))
         ELSE WithoutFences(Tail(text))
    ELSE <<Head(text)>> \o WithoutFences(Tail(text))

\* The text is one JSON document, white space aside
IsJsonText(text) ==
    LET solid == SelectSeq(text, LAMBDA tok : tok \notin Whitespace)
    IN Len(solid) = 1 /\ solid[1] \in JsonDocuments
       /\ \A i \in DOMAIN text : text[i] \in Whitespace \/ text[i] = solid[1]

\* The extraction reached the remote service and got a reply with text
ExtractionReplied ==
    /\ ServedAI /\ request.route = "extract-structured-data" /\ gemini_client = "client"
    /\ remote_calls = 1 /\ request.remote = "ok"

\* C13: when the remote call of a structured extraction succeeds, the answer
\* is success:true; extracted_data is the parsed value when the reply without
\* its code-fence markers is JSON, and {raw_response: the raw reply} otherwise.
C13_ExtractionFallsBackToRawReply ==
    ExtractionReplied =>
        /\ response.status = 200 /\ response.body.success
        /\ IF IsJsonText(WithoutFences(request.reply))
           THEN \E doc \in JsonDocuments :
                  /\ response.body.extracted_data = [json |-> doc]
                  /\ \E i \in DOMAIN request.reply : request.reply[i] = doc
           ELSE response.body.extracted_data = [raw_response |-> request.reply]

\* Prose followed by fenced JSON is returned raw
C13_Witness ==
    /\ ExtractionReplied /\ Len(request.reply) = 8 /\ request.reply[1] = "text"
    /\ response.body.success
    /\ response.body.extracted_data = [raw_response |-> request.reply]

-----------------------------------------------------------------------------
(* Properties of the format inspections of the file router *)

Min(a, b) == IF a < b THEN a ELSE b

\* The route answered 200 for a payload holding a document of the given kinds
Inspected(route, fmts) ==
    Served(route) /\ response.status = 200 /\ request.file.contents.fmt \in fmts

Descriptor == response.body.data

\* C14: on the csv route, an accepted UTF-8 payload with a header row and R
\* data rows is described with total_rows = R + 1, columns equal to the header
\* row's fields, and preview_rows equal to the first min(R, 5) data rows in
\* order, the header row not among them.
C14_CsvRowsAndPreview ==
    Inspected("csv", {"csv"}) =>
        LET R == request.file.contents.variant - 1
        IN /\ Descriptor.total_rows = R + 1
           /\ Descriptor.columns = CsvHeader
           /\ Descriptor.preview_rows = [k \in 1..Min(R, 5) |-> CsvDataRow(k)]
           /\ \A k \in DOMAIN Descriptor.preview_rows :
                 Descriptor.preview_rows[k] # CsvHeader

\* Seven data rows, five of them previewed
C14_Witness ==
    /\ Inspected("csv", {"csv"}) /\ request.file.contents.variant = 8
    /\ Len(Descriptor.preview_rows) = 5 /\ Descriptor.total_rows = 8

\* C15: on the json route, an accepted payload that parses is described with
\* keys and key_count and no array_length when its top-level value is an
\* object, with array_length and no keys or key_count when it is an array, and
\* with none of the three otherwise; the response is a success in each case.
C15_JsonDescriptorByType ==
    Inspected("json", JsonFormats) =>
        LET c == request.file.contents
            fields == DOMAIN Descriptor \cap {"keys", "key_count", "array_length"}
        IN /\ IsSuccessEnvelope
           /\ c.fmt = "json_object" =>
                 /\ fields = {"keys", "key_count"}
                 /\ Range(Descriptor.keys) = Range(JsonObjects[c.variant])
                 /\ Descriptor.key_count = Cardinality(Range(JsonObjects[c.variant]))
           /\ c.fmt = "json_array" =>
                 /\ fields = {"array_length"}
                 /\ Descriptor.array_length = JsonArrays[c.variant]
           /\ c.fmt = "json_scalar" => fields = {}

\* A top-level null is a success without keys, key_count or array_length
C15_Witness ==
    /\ Inspected("json", {"json_scalar"}) /\ Descriptor.data_type = "NoneType"
    /\ IsSuccessEnvelope /\ "keys" \notin DOMAIN Descriptor

\* The deepest element and the widest element of the documents explored
MaxDepth == 4

MaxFanout == 3

\* Positions below a root: the sequence of child indices leading to an element
Positions == UNION {[1..n -> 1..MaxFanout] : n \in 1..MaxDepth}

RECURSIVE HasPosition(_, _)
HasPosition(element, pos) ==
    \/ pos = <<>>
    \/ /\ Head(pos) \in DOMAIN element.children
       /\ HasPosition(element.children[Head(pos)], Tail(pos))

\* The number of descendant elements of a root
Descendants(root) == Cardinality({pos \in Positions : HasPosition(root, pos)})

\* C16: on the xml route, an accepted payload that parses to a root with N
\* descendant elements is described with total_elements = N + 1 and with
\* root_attributes equal to the attribute mapping of the root element.
C16_XmlElementCount ==
    Inspected("xml", {"xml"}) =>
        LET root == XmlTrees[request.file.contents.variant]
        IN /\ Descriptor.total_elements = Descendants(root) + 1
           /\ Descriptor.root_attributes = root.attrib
           /\ Descriptor.root_tag = root.tag

\* A chain of five elements under a root with two attributes
C16_Witness ==
    /\ Inspected("xml", {"xml"}) /\ request.file.contents.variant = 3
    /\ Descriptor.total_elements = 5 /\ DOMAIN Descriptor.root_attributes = {"x", "y"}

\* compression_ratio is reported in hundredths: the value v stands for v / 100
ZipEntries == ZipArchives[request.file.contents.variant]

\* C17 (as claimed): on the zip route, the compression_ratio reported for an
\* entry is 1 - compressed_size/uncompressed_size when the uncompressed size
\* is greater than 0 and 0 when it is 0; total_files is the number of entries.
C17_RatioIsOneMinusQuotient ==
    Inspected("zip", {"zip"}) =>
        /\ Descriptor.total_files = Len(ZipEntries)
        /\ \A i \in DOMAIN ZipEntries :
              LET u == ZipEntries[i].file_size
                  c == ZipEntries[i].compress_size
                  v == Descriptor.files[i].compression_ratio
              IN IF u > 0 THEN v * u = 100 * (u - c) ELSE v = 0

\* C17 (amended): the compression_ratio reported for an entry is the percentage
\* (1 - compressed_size/uncompressed_size) * 100 rounded to two decimals when
\* the uncompressed size is greater than 0 (negative when the entry grew), and
\* 0 when it is 0; total_files is the number of entries, reported in order.
C17_RatioIsRoundedPercentage ==
    Inspected("zip", {"zip"}) =>
        /\ Descriptor.total_files = Len(ZipEntries)
        /\ DOMAIN Descriptor.files = DOMAIN ZipEntries
        /\ \A i \in DOMAIN ZipEntries :
              LET u == ZipEntries[i].file_size
                  c == ZipEntries[i].compress_size
                  v == Descriptor.files[i].compression_ratio
                  d == v * u - 10000 * (u - c)
              IN /\ Descriptor.files[i].filename = ZipEntries[i].filename
                 /\ IF u > 0 THEN 2 * d <= u /\ 2 * (0 - d) <= u ELSE v = 0

\* An archive with an exact ratio, a rounding tie and an empty entry
C17_Witness ==
    /\ Inspected("zip", {"zip"}) /\ request.file.contents.variant = 3
    /\ Descriptor.files[1].compression_ratio = 8750
    /\ Descriptor.files[4].compression_ratio = 0

-----------------------------------------------------------------------------
(* The auxiliary functions of router.py called on their own: a caller picks *)
(* the arguments, the function is applied, and the result is returned.      *)

\* Filenames in further letter-casings and with further dots
CallFileNames ==
    FileNames
    \cup { <<"A", ".", "P", "D", "F">>, <<"a", ".", "P", "d", "F">>, <<".", "P", "D", "F">>,
           <<"a", ".", "J", "P", "G">>, <<"a", ".", "M", "p", "4">>,
           <<"a", ".", "b", ".", "p", "d", "f">>, <<"a", ".", "p", "d", "f", ".", "e", "x", "e">>,
           <<".", ".", "p", "d", "f">>, <<"b", "/", ".", "p", "d", "f">>,
           <<"b", ".", "c", "/", "a", ".", "X", "M", "L">> }

CallFileTypes == DOMAIN MAX_FILE_SIZE \cup {"other"}

Result(value) == [status |-> 0, body |-> [result |-> value]]

CallValidateFileSize ==
    /\ pc = "idle"
    /\ \E file_content \in Payloads, file_type \in CallFileTypes :
          request' = [route |-> "validate_file_size", file_content |-> file_content,
                      file_type |-> file_type]
    /\ pc' = "pending"
    /\ UNCHANGED <<response, file_reads, remote_calls, gateway_vars, registry_vars>>

CallValidateFileExtension ==
    /\ pc = "idle"
    /\ \E filename \in CallFileNames, file_type \in CallFileTypes :
          request' = [route |-> "validate_file_extension", filename |-> filename,
                      file_type |-> file_type]
    /\ pc' = "pending"
    /\ UNCHANGED <<response, file_reads, remote_calls, gateway_vars, registry_vars>>

ValidateFileSize ==
    /\ pc = "pending" /\ request.route = "validate_file_size"
    /\ response' = Result(validate_file_size(request.file_content, request.file_type))
    /\ pc' = "done"
    /\ UNCHANGED <<request, file_reads, remote_calls, gateway_vars, registry_vars>>

ValidateFileExtension ==
    /\ pc = "pending" /\ request.route = "validate_file_extension"
    /\ response' = Result(validate_file_extension(request.filename, request.file_type))
    /\ pc' = "done"
    /\ UNCHANGED <<request, file_reads, remote_calls, gateway_vars, registry_vars>>

NextCalls ==
    \/ CallValidateFileSize
    \/ CallValidateFileExtension
    \/ ValidateFileSize
    \/ ValidateFileExtension
    \/ Deliver

SpecCalls == Init /\ [][NextCalls]_vars

Returned(function) == pc = "done" /\ request.route = function

\* C18: for each of the ten categories, validate_file_size(payload, category)
\* is true iff len(payload) <= MAX_FILE_SIZE[category]: a payload of exactly
\* the limit is accepted and a payload one byte longer is rejected.
C18_SizeCheckIsAtMostLimit ==
    (Returned("validate_file_size") /\ request.file_type \in DOMAIN MAX_FILE_SIZE) =>
        LET len == request.file_content.size
            limit == MAX_FILE_SIZE[request.file_type]
        IN /\ response.body.result <=> len <= limit
           /\ len = limit => response.body.result
           /\ len = limit + 1 => ~response.body.result

\* A video payload of exactly 100 MB is accepted
C18_Witness ==
    /\ Returned("validate_file_size") /\ request.file_type = "video"
    /\ request.file_content.size = 100 * MB /\ response.body.result

\* The suffix of a filename: what follows its last dot, the dot included, when
\* the dot is in the last path component and is not one of its leading dots
FinalSuffix(name) ==
    LET dots == {i \in DOMAIN name :
                   /\ name[i] = "."
                   /\ \A j \in (i + 1)..Len(name) : name[j] \notin {".", "/"}
                   /\ \E k \in 1..(i - 1) :
                         name[k] # "." /\ \A j \in k..i : name[j] # "/"}
    IN IF dots = {} THEN <<>> ELSE SubSeq(name, CHOOSE i \in dots : TRUE, Len(name))

\* C19: validate_file_extension(filename, category) is true iff the lower-cased
\* final suffix of filename is in ALLOWED_EXTENSIONS[category]; it is the same
\* for every letter-casing of the name, and false for a filename without a
\* suffix, a name that is only a leading dot and an extension included.
C19_ExtensionCheckIsCaseInsensitive ==
    (Returned("validate_file_extension") /\ request.file_type \in DOMAIN ALLOWED_EXTENSIONS) =>
        LET suffix == FinalSuffix(request.filename)
            allowed == ALLOWED_EXTENSIONS[request.file_type]
        IN /\ response.body.result <=>
                 \E i \in DOMAIN allowed : allowed[i] = lower(suffix)
           /\ suffix = <<>> => ~response.body.result
           /\ \A other \in CallFileNames :
                 lower(other) = lower(request.filename) =>
                    validate_file_extension(other, request.file_type) = response.body.result

\* ".pdf" has no suffix and is rejected for the pdf category
C19_Witness ==
    /\ Returned("validate_file_extension") /\ request.file_type = "pdf"
    /\ request.filename = <<".", "p", "d", "f">> /\ ~response.body.result

-----------------------------------------------------------------------------
(* Resolution of a file's category in the batch path *)

\* The categories whose extension list holds the file's lower-cased suffix
CategoriesOf(file) ==
    {t \in DOMAIN ALLOWED_EXTENSIONS :
        lower(FinalSuffix(file.filename)) \in Range(ALLOWED_EXTENSIONS[t])}

-----------------------------------------------------------------------------
(* The validators on a category that is not registered *)

\* C21 (as claimed): the validators never accept a payload or a filename for a
\* category key that is absent from the registry.
C21_UnknownCategoryRejected ==
    (pc = "done" /\ request.route \in {"validate_file_size", "validate_file_extension"}
       /\ request.file_type \notin DOMAIN MAX_FILE_SIZE)
        => ~response.body.result

-----------------------------------------------------------------------------
(* The type registry *)

\* What GET /files/info reports for category t is what the validators enforce
InfoMatchesValidators(info, t) ==
    /\ info.extensions = ALLOWED_EXTENSIONS[t]
    /\ info.max_size_mb * MB = MAX_FILE_SIZE[t]
    /\ \A ext \in AllowedExtensionSet :
          validate_file_extension(Name(<<"a">>, ext), t) <=> ext \in Range(info.extensions)
    /\ \A c \in Payloads :
          validate_file_size(c, t) <=> c.size <= info.max_size_mb * MB

\* C22: the type registry is read-only: in every state MAX_FILE_SIZE and
\* ALLOWED_EXTENSIONS equal their start-up value and have the same ten keys,
\* and GET /files/info returns for each category exactly the extensions and
\* the size limit in MB that the validators enforce.
C22_RegistryReadOnly ==
    /\ MAX_FILE_SIZE = MAX_FILE_SIZE_INIT
    /\ ALLOWED_EXTENSIONS = ALLOWED_EXTENSIONS_INIT
    /\ DOMAIN MAX_FILE_SIZE = DOMAIN ALLOWED_EXTENSIONS
    /\ Cardinality(DOMAIN MAX_FILE_SIZE) = 10
    /\ Served("info") =>
          /\ IsSuccessEnvelope
          /\ DOMAIN Descriptor.supported_types = DOMAIN MAX_FILE_SIZE
          /\ \A t \in DOMAIN MAX_FILE_SIZE :
                InfoMatchesValidators(Descriptor.supported_types[t], t)

\* The info route answered after uploads were served, reporting 100 MB for video
C22_Witness ==
    /\ Served("info") /\ IsSuccessEnvelope
    /\ Descriptor.supported_types["video"].max_size_mb = 100
    /\ Descriptor.supported_types["json"].extensions = << <<".", "j", "s", "o", "n">> >>

-----------------------------------------------------------------------------
(* Properties of a chat call *)

\* C23: a chat call that returns success:true appends exactly two records to
\* the shared history, the user's message then the model's reply, and reports
\* the length of the history after the append; with clear_history the remote
\* session starts from an empty history and the history afterwards is exactly
\* those two records.
C23_ChatAppendsExchange ==
    [][ (ServesAI("chat") /\ response'.body.success) =>
           LET base == IF request.clear_history THEN <<>> ELSE chat_history
           IN /\ chat_history' = base \o Exchange(request.message)
              /\ response'.body.history_length = Len(chat_history')
              /\ chat_session' = <<start_chat_history(base)>>
              /\ request.clear_history =>
                    (chat_session' = << <<>> >> /\ chat_history' = Exchange(request.message))
      ]_vars

\* A chat with clear_history answered with a history of its two records
C23_Witness ==
    /\ ServedAI /\ request.route = "chat" /\ request.clear_history
    /\ response.status = 200 /\ response.body.success
    /\ response.body.history_length = 2 /\ chat_session = << <<>> >>
    /\ chat_history = Exchange(request.message)

-----------------------------------------------------------------------------
(* Properties of the embeddings operation *)

\* The preview of a text: the text when it has at most 100 characters, its
\* first 100 characters and three dots otherwise
Preview(text) ==
    IF Len(text) <= 100 THEN text
    ELSE [j \in 1..103 |-> IF j <= 100 THEN text[j] ELSE "."]

\* C24: generate_embeddings makes one remote call per input text, in input
\* order; on success it returns one record per text, total_texts being the
\* number of inputs, with the text's preview; if a remote call raises, the
\* result is the failure envelope, without any embedding of an earlier call.
C24_OneEmbeddingPerText ==
    (ServedAI /\ request.route = "embeddings" /\ gemini_client = "client") =>
        LET texts == request.texts
            body == response.body
        IN /\ response.status = 200
           /\ IF request.fail_at = 0
              THEN /\ body.success
                   /\ remote_calls = Len(texts)
                   /\ body.total_texts = Len(texts)
                   /\ DOMAIN body.embeddings = DOMAIN texts
                   /\ \A i \in DOMAIN texts :
                         /\ body.embeddings[i].embedding =
                               << [call |-> i, content |-> texts[i]] >>
                         /\ body.embeddings[i].text = Preview(texts[i])
              ELSE /\ ~body.success
                   /\ DOMAIN body = {"success", "error"}
                   /\ remote_calls = request.fail_at

\* Two texts, of 101 and of 100 characters, embedded in order
C24_Witness ==
    /\ ServedAI /\ request.route = "embeddings" /\ gemini_client = "client"
    /\ request.fail_at = 0 /\ Len(request.texts) = 2
    /\ Len(request.texts[1]) = 101 /\ Len(request.texts[2]) = 100
    /\ Len(response.body.embeddings[1].text) = 103
    /\ Len(response.body.embeddings[2].text) = 100

-----------------------------------------------------------------------------
(* Failure paths of the gateway *)

\* C25 (as claimed): a chat call that returns the failure envelope leaves the
\* shared conversation history exactly as it was before the call, for every
\* message, model and clear_history.
C25_FailedChatKeepsHistory ==
    [][ (ServesAI("chat") /\ ~response'.body.success) => chat_history' = chat_history ]_vars

\* C26 (as claimed): in every reachable state the shared history has even
\* length and its roles alternate user, model, user, model, ..., each user
\* record being followed by the model reply of the same chat call.
C26_HistoryAlternates ==
    /\ Len(chat_history) % 2 = 0
    /\ \A i \in DOMAIN chat_history :
          chat_history[i].role = IF i % 2 = 1 THEN "user" ELSE "model"

\* C27 (as claimed): a call of analyze_text made with the default temperature
\* generates with temperature 0.7 on its model tier, whatever temperatures
\* were passed to earlier calls on that tier.  (The call generates with the
\* temperature the tier's generation config holds when it is served.)
C27_DefaultTemperatureIsRestored ==
    (ServedAI /\ request.route = "analyze-text" /\ gemini_client = "client"
       /\ request.temperature = DEFAULT_TEMPERATURE)
        => temperature[selected_model(request.model)] = DEFAULT_TEMPERATURE

-----------------------------------------------------------------------------
(* The batch route against the single-upload routes *)

\* The single-upload route of the category answers the file with a success envelope
SingleAccepts(file_type, file) ==
    LET r == Respond(upload_route(file_type, file))
    IN r.status = 200 /\ "success" \in DOMAIN r.body /\ r.body.success

\* The bytes pass the inspection that the category's single-upload route makes
\* after its extension and size checks (Image.open, ZipFile, the %PDF
\* signature, decode('utf-8'), json.loads, ET.fromstring); the other routes
\* make none
FormatAccepted(file_type, contents) ==
    CASE file_type = "image" -> contents.fmt = "image"
      [] file_type = "zip" -> contents.fmt = "zip"
      [] file_type = "pdf" ->
            Len(contents.head) >= 4 /\ SubSeq(contents.head, 1, 4) = <<"%", "P", "D", "F">>
      [] file_type = "csv" -> contents.utf8
      [] file_type = "json" -> contents.utf8 /\ contents.fmt \in JsonFormats
      [] file_type = "xml" -> contents.utf8 /\ contents.fmt = "xml"
      [] OTHER -> TRUE

\* C28 (as claimed): whenever the batch reports a file as success with
\* category c, the single-upload route of category c answers the same filename
\* and payload with a success envelope.
C28_BatchAgreesWithSingle ==
    (Served("multiple") /\ response.status = 200) =>
        \A i \in DOMAIN response.body.data.results :
            LET entry == response.body.data.results[i]
            IN entry.success => SingleAccepts(entry.file_type, request.files[i])

\* C28 (amended): whenever the batch reports a file as success with category
\* c, the filename passes validate_file_extension and the payload passes
\* validate_file_size for c, the two checks the batch shares with the
\* single-upload route of c; that route answers the same filename and payload
\* with a success envelope if and only if the payload also passes the route's
\* own format inspection, which the batch does not make.
C28_BatchAgreesOnExtensionAndSize ==
    (Served("multiple") /\ response.status = 200) =>
        \A i \in DOMAIN response.body.data.results :
            LET entry == response.body.data.results[i]
                file == request.files[i]
            IN entry.success =>
                  /\ validate_file_extension(file.filename, entry.file_type)
                  /\ validate_file_size(file.contents, entry.file_type)
                  /\ SingleAccepts(entry.file_type, file)
                        <=> FormatAccepted(entry.file_type, file.contents)

C28_Witness ==
    /\ Served("multiple") /\ response.status = 200
    /\ \E i, j \in DOMAIN response.body.data.results :
          /\ response.body.data.results[i].success
          /\ response.body.data.results[i].file_type = "json"
          /\ ~SingleAccepts("json", request.files[i])
          /\ response.body.data.results[j].success
          /\ SingleAccepts(response.body.data.results[j].file_type, request.files[j])

-----------------------------------------------------------------------------
(* The combined routes of ai_routes.py *)

CombinedRoutes == {"combined/image-analysis", "combined/document-analysis"}

\* C29 (as claimed): on the two combined routes the top-level success of the
\* response is true only if the nested ai_analysis envelope has success true.
C29_CombinedSuccessFollowsAnalysis ==
    (ServedAI /\ request.route \in CombinedRoutes /\ response.status = 200
       /\ response.body.success)
        => response.body.ai_analysis.success

====
